---- MODULE Spec2Model ----
(***************************************************************************)
(* A model of the capture engine of Orbit:                                 *)
(*   - capture_deserializer::Load / internal::ReadMessage /                *)
(*     internal::LoadCaptureInfo (OrbitClientModel/CaptureDeserializer.cpp)*)
(*   - TimerBlock / TimerChain (ClientData/TimerChain.h)                   *)
(*   - the live capture session: Capture::StartCapture, StopCapture,       *)
(*     SetTargetProcess, Update and the per-session data (Capture.cpp)     *)
(*   - the modules of the selected process and their list in               *)
(*     ModulesDataView (OrbitGl/ModulesDataView.cpp)                       *)
(*   - ProcessList (ProcessUtils.cpp) and its view ProcessesDataView       *)
(*     (OrbitGl/ProcessesDataView.cpp)                                     *)
(* Each component has its own specification (SpecLoad, SpecChain,          *)
(* SpecCapture, SpecSelection, SpecIntern, SpecInternReset, SpecModules,   *)
(* SpecProcessList, SpecProcessesView); the variables of the other         *)
(* components stay at their initial values.                                *)
(***************************************************************************)
EXTENDS Integers, Sequences, FiniteSets, TLC

VARIABLES
    \* ---- capture_deserializer::Load ----
    file,                    \* how the capture file was written (payloads, kept bytes)
    stream,                  \* the bytes of the input stream
    pos,                     \* bytes consumed from the CodedInputStream
    pc,                      \* position of Load / LoadCaptureInfo
    cancellation_requested,  \* std::atomic<bool>* cancellation_requested
    header,                  \* CaptureHeader header
    capture_info,            \* CaptureInfo capture_info
    timer_info,              \* TimerInfo timer_info
    process,                 \* ProcessData process (with its module infos)
    module_map,              \* module_map: file_path -> ModuleInfo
    selected_functions,      \* selected_functions of LoadCaptureInfo
    phase,                   \* which for-loop of LoadCaptureInfo is running
    idx,                     \* index of the loop's next element
    log,                     \* the listener callbacks delivered so far
    \* history of the run (not read by the program)
    cancel_at,               \* pc at which the flag was set ("never", "call")
    events_after_cancel,     \* event callbacks delivered since the flag was set
    timer_unread_at_cancel,  \* a complete timer message was unread when it was set
    malformed_read,          \* ReadMessage met a short payload or a parse failure
    \* ---- TimerChain ----
    blocks,                  \* the TimerBlocks, in allocation order (pointer = index)
    root_,
    current_,
    num_blocks_,
    num_items_,
    last_op,                 \* what the last TimerChain::emplace_back did
    last_timer,              \* the timer it was called with
    \* ---- Capture (live session) ----
    WIN32,                   \* the build: TRUE if WIN32 is defined, else a Linux build
    Capture,                 \* the static members of Capture
    GSessionID,              \* Message::GSessionID
    GTimerManager,           \* GTimerManager->m_IsRecording
    call,                    \* the last call: its name, result and what it sent
                             \* (history, not read by the program)
    GCallstackMutex,         \* Capture::GCallstackMutex: its owner, 0 if free
    threads,                 \* the threads that call AddCallstack / GetCallstack
    unselected,              \* the functions whose selection the user has cleared
    \* ---- the modules of the selected process ----
    m_Process,               \* the module set of the selected process, in load order
    m_Modules,               \* ModulesDataView::m_Modules, the listed modules
    menu,                    \* the last call of the view: its name, argument and
                             \* outcome (history, not read by the program)
    \* ---- the process list and its view ----
    m_ProcessList,           \* ProcessesDataView::m_ProcessList: m_Processes and
                             \* m_ProcessesMap
    m_Indices,               \* the rows of the view: indices into m_Processes
    m_SelectedIndex,         \* the selected row, -1 if none
    m_SelectedProcess,       \* the selected process, NoProcess if nullptr
    m_LastSortedColumn,      \* the column of the last OnSort, -1 before the first
    m_ThreadUsage            \* the thread usage sample of Capture::GTargetProcess

loadVars == <<file, stream, pos, pc, cancellation_requested, header, capture_info,
              timer_info, process, module_map, selected_functions, phase, idx, log,
              cancel_at, events_after_cancel, timer_unread_at_cancel, malformed_read>>
chainVars == <<blocks, root_, current_, num_blocks_, num_items_, last_op, last_timer>>
captureVars == <<WIN32, Capture, GSessionID, GTimerManager, call, GCallstackMutex,
                 threads, unselected>>
moduleVars == <<m_Process, m_Modules, menu>>
viewVars == <<m_ProcessList, m_Indices, m_SelectedIndex, m_SelectedProcess,
              m_LastSortedColumn, m_ThreadUsage>>
vars == <<loadVars, chainVars, captureVars, moduleVars, viewVars>>

----------------------------------------------------------------------------
(* Bounds of the model *)

\* longest header payload (version string plus garbage) that is enumerated
MaxVersionLen == 2
\* most field entries in an enumerated metadata (CaptureInfo) payload
MaxMetaLen == 2
\* most timer messages in an enumerated stream
MaxTimers == 2
\* timestamps are 0..MaxTimestamp; MaxTimestamp stands for
\* std::numeric_limits<uint64_t>::max()
MaxTimestamp == 2
\* most TimerChain::emplace_back calls in a run
MaxAppends == 4
\* TimerBlock::kBlockSize, scaled down from 1024
kBlockSize == 2
\* the processes that can be made the target are 1..MaxProcess; process 0 is
\* the unnamed Process that Capture::Init creates
MaxProcess == 3
\* function addresses, call-stack hashes, zone ids and addresses are 1..MaxKey
MaxKey == 1
\* most items of session data (map entries and counted events) held at a time
MaxRecorded == 1
\* most sessions started in a run
MaxSessions == 2
\* the functions of a process have the addresses 1..MaxFunction
MaxFunction == 3
\* a call stack is one of 1..MaxContent (its address sequence); its hash is
\* one of 1..MaxKey
MaxContent == 2
\* the threads 1..MaxProducers call AddCallstack; one more calls GetCallstack
MaxProducers == 2
\* the modules of a process are at most MaxModules, their addresses 0..MaxAddress
MaxModules == 1
MaxAddress == 3

----------------------------------------------------------------------------
(* Generic helpers *)

SeqsUpTo(S, n) == UNION {[1..k -> S] : k \in 0..n}

RECURSIVE Concat(_)
Concat(ss) == IF ss = <<>> THEN <<>> ELSE Head(ss) \o Concat(Tail(ss))

----------------------------------------------------------------------------
(* The wire format *)

\* google::protobuf::io::CodedInputStream::ReadLittleEndian32 on 4 bytes
LittleEndian32(b) == b[1] + 256 * b[2] + 65536 * b[3] + 16777216 * b[4]

\* the writer's side of the framing: 4-byte little-endian length
LittleEndian32Bytes(n) ==
    <<n % 256, (n \div 256) % 256, (n \div 65536) % 256, (n \div 16777216) % 256>>

Frame(payload) == LittleEndian32Bytes(Len(payload)) \o payload

\* A payload is a sequence of field entries, one byte each: the byte is the
\* field's tag.  Tag 0 is invalid on the wire: parsing stops there and
\* ParseFromArray returns false, keeping the fields parsed before it.
RECURSIVE ValidPrefix(_)
ValidPrefix(payload) ==
    IF payload = <<>> \/ Head(payload) = 0 THEN <<>>
    ELSE <<Head(payload)>> \o ValidPrefix(Tail(payload))

ParseOk(payload) == ValidPrefix(payload) = payload

\* the fields of CaptureInfo by tag
FieldOfTag ==
    <<"process", "module_a", "module_b", "selected_functions", "address_infos",
      "thread_names", "thread_state_slices", "callstacks", "callstack_events",
      "tracepoint_infos", "tracepoint_event_infos", "key_to_string">>

MetaBytes == 0..Len(FieldOfTag)

TagsOf(fields) == {t \in 1..Len(FieldOfTag) : FieldOfTag[t] \in fields}

\* the entries of the payload that belong to one of `fields`, in wire order;
\* an entry is identified by its position in the payload
RECURSIVE Positions(_, _, _)
Positions(p, tags, i) ==
    IF i > Len(p) THEN <<>>
    ELSE (IF p[i] \in tags THEN <<i>> ELSE <<>>) \o Positions(p, tags, i + 1)

Entries(p, field) == Positions(p, TagsOf({field}), 1)

DefaultProcess ==
    [pid |-> 0, name |-> "", cpu_usage |-> 0, full_path |-> "",
     command_line |-> "", is_64_bit |-> FALSE]

SampleProcess ==
    [pid |-> 42, name |-> "p", cpu_usage |-> 20, full_path |-> "/bin/p",
     command_line |-> "p -x", is_64_bit |-> TRUE]

ModuleOfField(f) ==
    IF f = "module_a"
    THEN [file_path |-> "a", file_size |-> 10, address_start |-> 1, address_end |-> 3,
          build_id |-> "ida", load_bias |-> 0]
    ELSE [file_path |-> "b", file_size |-> 20, address_start |-> 3, address_end |-> 5,
          build_id |-> "idb", load_bias |-> 0]

\* every selected function of the enumerated files lives in module "a"
FunctionOfEntry(i) == [loaded_module_path |-> "a", address |-> i]

\* CaptureHeader: ParseFromArray (Clear, then merge the valid fields)
ParseCaptureHeader(payload) == [version |-> ValidPrefix(payload)]

\* TimerInfo: ParseFromArray
ParseTimerInfo(payload) == [fields |-> ValidPrefix(payload)]

\* CaptureInfo: ParseFromArray
ParseCaptureInfo(payload) ==
    LET p == ValidPrefix(payload)
        mods == Positions(p, TagsOf({"module_a", "module_b"}), 1)
        funs == Entries(p, "selected_functions")
    IN  [process |-> IF Entries(p, "process") = <<>> THEN DefaultProcess ELSE SampleProcess,
         modules |-> [k \in 1..Len(mods) |-> ModuleOfField(FieldOfTag[p[mods[k]]])],
         selected_functions |-> [k \in 1..Len(funs) |-> FunctionOfEntry(funs[k])],
         address_infos |-> Entries(p, "address_infos"),
         thread_names |-> Entries(p, "thread_names"),
         thread_state_slices |-> Entries(p, "thread_state_slices"),
         callstacks |-> Entries(p, "callstacks"),
         callstack_events |-> Entries(p, "callstack_events"),
         tracepoint_infos |-> Entries(p, "tracepoint_infos"),
         tracepoint_event_infos |-> Entries(p, "tracepoint_event_infos"),
         key_to_string |-> Entries(p, "key_to_string")]

EmptyCaptureInfo == ParseCaptureInfo(<<>>)

----------------------------------------------------------------------------
(* internal::ReadMessage *)

\* mutant: the result of ReadRaw is ignored, a short payload is accepted
ReadMessageShortPayload(s, p) ==
    IF Len(s) - p < 4
    THEN [ok |-> FALSE, pos |-> Len(s), payload |-> <<>>]
    ELSE LET message_size == LittleEndian32(SubSeq(s, p + 1, p + 4))
             end == IF Len(s) - (p + 4) < message_size THEN Len(s)
                    ELSE p + 4 + message_size
         IN  [ok |-> TRUE, pos |-> end, payload |-> SubSeq(s, p + 5, end)]

\* bool ReadMessage(message, input): the 4 length bytes, then `length` bytes
ReadMessage(s, p) ==
    IF Len(s) - p < 4
    THEN [ok |-> FALSE, pos |-> Len(s), payload |-> <<>>]
    ELSE LET message_size == LittleEndian32(SubSeq(s, p + 1, p + 4))
         IN  IF Len(s) - (p + 4) < message_size
             THEN [ok |-> FALSE, pos |-> Len(s), payload |-> <<>>]
             ELSE [ok |-> TRUE, pos |-> p + 4 + message_size,
                   payload |-> SubSeq(s, p + 5, p + 4 + message_size)]

\* history: the message at p has its length prefix but a short payload, or a
\* payload that does not parse
MalformedAt(s, p) ==
    /\ Len(s) - p >= 4
    /\ \/ ~ReadMessage(s, p).ok
       \/ ~ParseOk(ReadMessage(s, p).payload)

----------------------------------------------------------------------------
(* capture_deserializer::Load *)

kRequiredCaptureVersion == <<1>>

file_name == <<9, 9>>

\* mutant: a foreign version is decoded on a best-effort basis
VersionSupportedBestEffort(version) == TRUE

VersionSupported(version) == version = kRequiredCaptureVersion

\* absl::StrFormat results, as the format and its arguments
OpenErrorMessage(name) == [format |-> "Error opening file for reading", args |-> <<name>>]

ParseErrorMessage(name) ==
    [format |-> "Error parsing the capture; a previous Orbit version could be incompatible",
     args |-> <<name>>]

\* mutant: the message leaves out the version of the file
IncompatibleVersionErrorMessageNoVersion(name, version) ==
    [format |-> "The format of capture is no longer supported",
     args |-> <<name>>]

IncompatibleVersionErrorMessage(name, version) ==
    [format |-> "The format of capture is no longer supported but could be opened with Orbit version",
     args |-> <<name, version>>]

Callback(cb, arg) == [cb |-> cb, arg |-> arg]

Deliver(cb, arg) == log' = Append(log, Callback(cb, arg))

EventCallbacks ==
    {"OnAddressInfo", "OnThreadName", "OnThreadStateSlice", "OnUniqueCallStack",
     "OnCallstackEvent", "OnUniqueTracepointInfo", "OnTracepointEvent",
     "OnKeyAndString", "OnTimer"}

TerminalCallbacks == {"OnCaptureComplete", "OnCaptureCancelled", "OnCaptureFailed"}

\* the for-loops of LoadCaptureInfo, in program order
LoopField ==
    <<"address_infos", "thread_names", "thread_state_slices", "callstacks",
      "callstack_events", "tracepoint_infos", "tracepoint_event_infos", "key_to_string">>

\* mutant: the loop of the callstack events calls OnUniqueCallStack and the
\* loop of the unique call stacks OnCallstackEvent
LoopCallbackEventsFirst ==
    <<"OnAddressInfo", "OnThreadName", "OnThreadStateSlice", "OnCallstackEvent",
      "OnUniqueCallStack", "OnUniqueTracepointInfo", "OnTracepointEvent", "OnKeyAndString">>

LoopCallback ==
    <<"OnAddressInfo", "OnThreadName", "OnThreadStateSlice", "OnUniqueCallStack",
      "OnCallstackEvent", "OnUniqueTracepointInfo", "OnTracepointEvent", "OnKeyAndString">>

\* the read of the atomic flag
CancellationRequested == cancellation_requested

\* mutant: the return after OnCaptureCancelled is missing
CancelledNoReturn == Deliver("OnCaptureCancelled", <<>>) /\ pc' = pc

\* capture_listener->OnCaptureCancelled(); return;
Cancelled == Deliver("OnCaptureCancelled", <<>>) /\ pc' = "done"

NoteEvent ==
    events_after_cancel' = IF cancellation_requested THEN events_after_cancel + 1
                           ELSE events_after_cancel

\* mutant: the cpu usage is not copied
TranslateProcessNoCpuUsage(p) ==
    [pid |-> p.pid, name |-> p.name, cpu_usage |-> 0,
     full_path |-> p.full_path, command_line |-> p.command_line,
     is_64_bit |-> p.is_64_bit]

\* ProcessInfo process_info; ... ProcessData process(process_info);
TranslateProcess(p) ==
    [pid |-> p.pid, name |-> p.name, cpu_usage |-> p.cpu_usage,
     full_path |-> p.full_path, command_line |-> p.command_line,
     is_64_bit |-> p.is_64_bit]

\* one ModuleInfo of the module loop
TranslateModule(m) ==
    [file_path |-> m.file_path, file_size |-> m.file_size,
     address_start |-> m.address_start, address_end |-> m.address_end,
     build_id |-> m.build_id, load_bias |-> m.load_bias]

\* module_map[module.file_path()] = modules.back(), over all modules
ModuleMapOf(modules) ==
    [path \in {modules[k].file_path : k \in 1..Len(modules)} |->
        LET k == CHOOSE k \in 1..Len(modules) :
                    /\ modules[k].file_path = path
                    /\ \A j \in (k + 1)..Len(modules) : modules[j].file_path # path
        IN  TranslateModule(modules[k])]

\* FunctionUtils::GetAbsoluteAddress is outside the model: the functions of
\* the enumerated files have distinct addresses
GetAbsoluteAddress(function, module) == function.address

----------------------------------------------------------------------------
(* The input files *)

TagOf(field) == CHOOSE t \in 1..Len(FieldOfTag) : FieldOfTag[t] = field

VersionBytes == 0..2
TimerBytes == 0..2

HeaderPayloads == SeqsUpTo(VersionBytes, MaxVersionLen)
MetaPayloads == SeqsUpTo(MetaBytes, MaxMetaLen)
TimerPayloads == SeqsUpTo(TimerBytes, 1)
SmallMetaPayloads == {<<>>, <<TagOf("address_infos")>>}

FileBytes(f) ==
    Frame(f.header) \o Frame(f.meta)
        \o Concat([k \in 1..Len(f.timers) |-> Frame(f.timers[k])])

NoFile == [exists |-> FALSE, header |-> <<>>, meta |-> <<>>, timers |-> <<>>, kept |-> 0]

\* every header, followed by a small rest, cut at every byte
HeaderFiles ==
    {f \in [exists : {TRUE}, header : HeaderPayloads, meta : SmallMetaPayloads,
            timers : {<< <<1>> >>}, kept : 0..(4 + MaxVersionLen + 4 + 1 + 4 + 1)] :
        f.kept <= Len(FileBytes(f))}

\* every metadata message after the supported header, complete
MetaFiles ==
    {[f EXCEPT !.kept = Len(FileBytes(f))] :
        f \in [exists : {TRUE}, header : {kRequiredCaptureVersion}, meta : MetaPayloads,
               timers : {<<>>, << <<1>>, <<2>> >>}, kept : {0}]}

\* every sequence of timer messages after a small metadata message, cut at
\* every byte
TimerFiles ==
    {f \in [exists : {TRUE}, header : {kRequiredCaptureVersion}, meta : SmallMetaPayloads,
            timers : SeqsUpTo(TimerPayloads, MaxTimers),
            kept : 0..(4 + 1 + 4 + 1 + MaxTimers * (4 + 1))] :
        f.kept <= Len(FileBytes(f))}

Files == {NoFile} \cup HeaderFiles \cup MetaFiles \cup TimerFiles

----------------------------------------------------------------------------
(* Initial states *)

LoadInit ==
    /\ file \in Files
    /\ stream = SubSeq(FileBytes(file), 1, file.kept)
    /\ pos = 0
    /\ pc = "open"
    /\ cancellation_requested \in BOOLEAN
    /\ header = ParseCaptureHeader(<<>>)
    /\ capture_info = EmptyCaptureInfo
    /\ timer_info = ParseTimerInfo(<<>>)
    /\ process = [info |-> DefaultProcess, modules |-> {}]
    /\ module_map = <<>>
    /\ selected_functions = <<>>
    /\ phase = 1
    /\ idx = 1
    /\ log = <<>>
    /\ cancel_at = IF cancellation_requested THEN "call" ELSE "never"
    /\ events_after_cancel = 0
    /\ timer_unread_at_cancel = FALSE
    /\ malformed_read = FALSE

\* no Load is running
LoadIdle ==
    /\ file = NoFile
    /\ stream = <<>>
    /\ pos = 0
    /\ pc = "done"
    /\ cancellation_requested = FALSE
    /\ header = ParseCaptureHeader(<<>>)
    /\ capture_info = EmptyCaptureInfo
    /\ timer_info = ParseTimerInfo(<<>>)
    /\ process = [info |-> DefaultProcess, modules |-> {}]
    /\ module_map = <<>>
    /\ selected_functions = <<>>
    /\ phase = 1
    /\ idx = 1
    /\ log = <<>>
    /\ cancel_at = "never"
    /\ events_after_cancel = 0
    /\ timer_unread_at_cancel = FALSE
    /\ malformed_read = FALSE

\* mutant: the new block does not record its predecessor
NewTimerBlockNoPrev(prev) ==
    [prev_ |-> 0, next_ |-> 0, data_ |-> <<>>,
     min_timestamp_ |-> MaxTimestamp, max_timestamp_ |-> 0]

NewTimerBlock(prev) ==
    [prev_ |-> prev, next_ |-> 0, data_ |-> <<>>,
     min_timestamp_ |-> MaxTimestamp, max_timestamp_ |-> 0]

\* TimerChain(): root_ = new TimerBlock(nullptr), current_ = root_
ChainInit ==
    /\ blocks = <<NewTimerBlock(0)>>
    /\ root_ = 1
    /\ current_ = 1
    /\ num_blocks_ = 1
    /\ num_items_ = 0
    /\ last_op = "none"
    /\ last_timer = [start |-> 0, end |-> 0]

----------------------------------------------------------------------------
(* Capture: the processes, the statics and their initial values *)

Processes == 0..MaxProcess

\* Process::GetName: only the Process of Capture::Init has no name
GetName(p) == IF p = 0 THEN <<>> ELSE <<p>>

\* Process::GetIsRemote: the even processes are remote
GetIsRemote(p) == p > 0 /\ p % 2 = 0

\* Process::GetFunctions: the addresses of the known functions; processes 0
\* and 1 have none
GetFunctions(p) == IF p <= 1 THEN {} ELSE 1..MaxFunction

\* Function::IsSelected: process p has its functions below p selected, until
\* the user clears the selection of one
IsSelected(p, a) == a < p /\ a \notin unselected

\* Function::GetOrbitType: functions 1 and 2 are plain, the others belong to
\* the Orbit API
GetOrbitType(a) ==
    IF a <= 2 THEN "NONE" ELSE IF a = 3 THEN "ORBIT_LOG" ELSE "ORBIT_TIMER_START"

\* Function::IsOrbitFunc
IsOrbitFunc(a) == GetOrbitType(a) # "NONE"

\* mutant: only the selected flag decides
GetSelectedFunctionsBySelectedFlag(p) == {a \in GetFunctions(p) : IsSelected(p, a)}

\* Capture::GetSelectedFunctions
GetSelectedFunctions(p) ==
    {a \in GetFunctions(p) : IsSelected(p, a) \/ IsOrbitFunc(a)}

\* Function::OrbitType, in the order of the enum
OrbitTypes ==
    <<"NONE", "ORBIT_TIMER_START", "ORBIT_TIMER_STOP", "ORBIT_LOG",
      "ORBIT_OUTPUT_DEBUG_STRING", "UNREAL_ACTOR", "ALLOC", "FREE", "REALLOC",
      "ORBIT_DATA">>

\* mutant: the zone stop hooks are sent as zone start hooks
GetMessageTypeZoneStopAsStart(a_type) ==
    CASE a_type = "NONE" -> "Msg_FunctionHook"
      [] a_type = "ORBIT_TIMER_START" -> "Msg_FunctionHookZoneStart"
      [] a_type = "ORBIT_TIMER_STOP" -> "Msg_FunctionHookZoneStart"
      [] a_type = "ORBIT_LOG" -> "Msg_FunctionHook"
      [] a_type = "ORBIT_OUTPUT_DEBUG_STRING" -> "Msg_FunctionHookOutputDebugString"
      [] a_type = "UNREAL_ACTOR" -> "Msg_FunctionHookUnrealActor"
      [] a_type = "ALLOC" -> "Msg_FunctionHookAlloc"
      [] a_type = "FREE" -> "Msg_FunctionHookFree"
      [] a_type = "REALLOC" -> "Msg_FunctionHookRealloc"
      [] a_type = "ORBIT_DATA" -> "Msg_FunctionHookOrbitData"

\* GetMessageType
GetMessageType(a_type) ==
    CASE a_type = "NONE" -> "Msg_FunctionHook"
      [] a_type = "ORBIT_TIMER_START" -> "Msg_FunctionHookZoneStart"
      [] a_type = "ORBIT_TIMER_STOP" -> "Msg_FunctionHookZoneStop"
      [] a_type = "ORBIT_LOG" -> "Msg_FunctionHook"
      [] a_type = "ORBIT_OUTPUT_DEBUG_STRING" -> "Msg_FunctionHookOutputDebugString"
      [] a_type = "UNREAL_ACTOR" -> "Msg_FunctionHookUnrealActor"
      [] a_type = "ALLOC" -> "Msg_FunctionHookAlloc"
      [] a_type = "FREE" -> "Msg_FunctionHookFree"
      [] a_type = "REALLOC" -> "Msg_FunctionHookRealloc"
      [] a_type = "ORBIT_DATA" -> "Msg_FunctionHookOrbitData"

\* a std::map / std::unordered_map is the set of its [key, value] entries
Put(m, k, v) == {e \in m : e.key # k} \cup {[key |-> k, value |-> v]}

Keys(m) == {e.key : e \in m}

\* the statics of Capture as initialised (Capture.cpp:36-72) and after
\* Capture::Init
CaptureStatics ==
    [GInjected |-> FALSE,
     GInjectedProcess |-> <<>>,
     GTargetProcess |-> 0,
     GSelectedFunctions |-> {},
     GSelectedFunctionsMap |-> {},
     GVisibleFunctionsMap |-> {},
     GFunctionCountMap |-> {},
     GCallstacks |-> {},
     GAddressInfos |-> {},
     GAddressToFunctionName |-> {},
     GZoneNames |-> {},
     GSelectedTextBox |-> 0,
     GSelectedThreadId |-> 0,
     GNumProfileEvents |-> 0,
     GHasContextSwitches |-> FALSE,
     GNumLinuxEvents |-> 0,
     GNumContextSwitches |-> 0]

NoCall ==
    [op |-> "Init", arg |-> <<>>, recording |-> FALSE, result |-> "", sent |-> <<>>,
     ui |-> <<>>, profiler |-> <<>>]

Producers == 1..MaxProducers
Consumer == MaxProducers + 1
Threads == Producers \cup {Consumer}

\* a thread before its call
IdleThread == [pc |-> "idle", op |-> "", arg |-> 0, result |-> 0]

CaptureStart ==
    /\ GCallstackMutex = 0
    /\ threads = [t \in Threads |-> IdleThread]
    /\ Capture = CaptureStatics
    /\ GSessionID = 0
    /\ GTimerManager = [m_IsRecording |-> FALSE]
    /\ call = NoCall
    /\ unselected = {}

CaptureInit == WIN32 \in BOOLEAN /\ CaptureStart

CaptureIdle == WIN32 = FALSE /\ CaptureStart

----------------------------------------------------------------------------
(* The modules of the selected process *)

Addresses == 0..MaxAddress

\* a module as the process enumeration or the remote agent reports it: its
\* name and its address range, taken as reported
Modules ==
    [m_Name : 1..MaxModules, m_AddressStart : Addresses, m_AddressEnd : Addresses]

\* the module lists a process can have: one module per name
ModuleLists ==
    {mods \in UNION {[1..n -> Modules] : n \in 0..MaxModules} :
        \A i, j \in 1..Len(mods) : mods[i].m_Name = mods[j].m_Name => i = j}

\* nullptr / Unresolved
NoModule == [m_Name |-> 0, m_AddressStart |-> 0, m_AddressEnd |-> 0]

NoMenu == [op |-> "Init", address |-> 0, result |-> NoModule, check |-> TRUE]

\* no process is selected: std::make_shared<Process>() has no modules
ModulesInit ==
    /\ m_Process = <<>>
    /\ m_Modules = <<>>
    /\ menu = NoMenu

----------------------------------------------------------------------------
(* The process list (ProcessList) and its view (ProcessesDataView)         *)
(* A Process object is [m_ID, object, m_CpuUsage]: object tells apart the  *)
(* objects made for one process id; two records are the same object if     *)
(* they agree on m_ID and object.                                          *)

\* the ids of the processes of this machine
Pids == {p \in Processes : p # 0 /\ ~GetIsRemote(p)}

\* the CPU and thread usage samples: idle or busy
CpuUsages == {0, 100}

\* what an enumeration of processes yields (the toolhelp snapshot, /proc with
\* LinuxUtils::GetCpuUtilization, or the list of the agent), in its order
ProcessInfos ==
    {s \in UNION {[1..n -> [m_ID : Pids, m_CpuUsage : CpuUsages]] :
                      n \in 0..Cardinality(Pids)} :
        \A i, j \in 1..Len(s) : s[i].m_ID = s[j].m_ID => i = j}

\* nullptr
NoProcess == [m_ID |-> 0, object |-> 0, m_CpuUsage |-> 0]

SameObject(a, b) == a.m_ID = b.m_ID /\ a.object = b.object

\* std::make_shared<Process>() followed by SetID(pid): an object that none of
\* the live ones is
MakeShared(pid, live) ==
    LET used == {q.object : q \in {x \in live : x.m_ID = pid}}
    IN  [m_ID |-> pid,
         object |-> CHOOSE n \in 1..(Cardinality(used) + 1) :
                        n \notin used /\ \A k \in 1..(n - 1) : k \in used,
         m_CpuUsage |-> 0]

\* ProcessList::ProcessList
EmptyList == [m_Processes |-> <<>>, m_ProcessesMap |-> {}]

\* the objects a list refers to
Objects(l) ==
    {l.m_Processes[i] : i \in DOMAIN l.m_Processes}
        \cup {e.value : e \in l.m_ProcessesMap}

\* iter->second of m_ProcessesMap.find(k)
ValueOf(m, k) == (CHOOSE e \in m : e.key = k).value

\* ProcessList::Clear
Clear(l) == [l EXCEPT !.m_Processes = <<>>, !.m_ProcessesMap = {}]

RECURSIVE RefreshLoop(_, _, _, _, _)
\* ProcessList::Refresh, the loop over the enumerated processes from the i-th
\* on: known is the map in which a process is looked up; held are the
\* objects that other owners keep alive
RefreshLoop(l, known, snapshot, held, i) ==
    IF i > Len(snapshot) THEN l
    ELSE LET pid == snapshot[i].m_ID
             proc == IF pid \in Keys(known) THEN ValueOf(known, pid)
                        ELSE MakeShared(pid, Objects(l) \cup {e.value : e \in known}
                                                 \cup held)
         IN  RefreshLoop([l EXCEPT !.m_Processes = Append(@, proc),
                                   !.m_ProcessesMap = Put(@, pid, proc)],
                         known, snapshot, held, i + 1)

\* ProcessList::Refresh: the WIN32 build rebuilds list and map from the
\* snapshot and the previous map; the other builds clear the list only and
\* return if /proc cannot be opened
Refresh(l, snapshot, opendir_ok, held) ==
    IF WIN32
    THEN RefreshLoop(Clear(l), l.m_ProcessesMap, snapshot, held, 1)
    ELSE IF ~opendir_ok THEN [l EXCEPT !.m_Processes = <<>>]
    ELSE RefreshLoop([l EXCEPT !.m_Processes = <<>>], l.m_ProcessesMap, snapshot,
                     held, 1)

\* the usage the system reports for a process, 0 for one it does not report
CpuOf(snapshot, pid) ==
    LET hits == {i \in 1..Len(snapshot) : snapshot[i].m_ID = pid}
    IN  IF hits = {} THEN 0 ELSE snapshot[CHOOSE i \in hits : TRUE].m_CpuUsage

\* ProcessList::UpdateCpuTimes: the usage of every listed object is set; the
\* map refers to the same objects
UpdateCpuTimes(l, snapshot) ==
    LET listed(p) == \E i \in DOMAIN l.m_Processes : SameObject(l.m_Processes[i], p)
        updated(p) == [p EXCEPT !.m_CpuUsage = CpuOf(snapshot, p.m_ID)]
    IN  [m_Processes |-> [i \in DOMAIN l.m_Processes |-> updated(l.m_Processes[i])],
         m_ProcessesMap |->
             {[key |-> e.key,
               value |-> IF listed(e.value) THEN updated(e.value) ELSE e.value] :
                  e \in l.m_ProcessesMap}]

\* ProcessList::Contains
Contains(l, a_PID) == \E i \in DOMAIN l.m_Processes : l.m_Processes[i].m_ID = a_PID

\* ProcessList::GetProcessById
GetProcessById(l, pid) ==
    IF pid \in Keys(l.m_ProcessesMap) THEN ValueOf(l.m_ProcessesMap, pid)
    ELSE NoProcess

RECURSIVE UpdateFromRemoteLoop(_, _, _, _, _)
\* ProcessList::UpdateFromRemote, the loop over the remote processes from the
\* i-th on: a remote process is an object of the remote list
UpdateFromRemoteLoop(l, updated, remote_list, held, i) ==
    IF i > Len(remote_list) THEN updated
    ELSE LET id == remote_list[i].m_ID
             remote_process ==
                 [MakeShared(id, Objects(l) \cup Objects(updated) \cup held)
                     EXCEPT !.m_CpuUsage = remote_list[i].m_CpuUsage]
             proc == IF id \notin Keys(l.m_ProcessesMap) THEN remote_process
                        ELSE [ValueOf(l.m_ProcessesMap, id)
                                 EXCEPT !.m_CpuUsage = remote_process.m_CpuUsage]
         IN  UpdateFromRemoteLoop(
                 l,
                 [m_Processes |-> Append(updated.m_Processes, proc),
                  m_ProcessesMap |-> Put(updated.m_ProcessesMap, proc.m_ID, proc)],
                 remote_list, held, i + 1)

\* ProcessList::UpdateFromRemote
UpdateFromRemote(l, remote_list, held) ==
    UpdateFromRemoteLoop(l, EmptyList, remote_list, held, 1)

\* ProcessList::UpdateProcess, for a listed id (CHECK(updated)): the first
\* listed object with the id is replaced
UpdateProcess(l, newer_version) ==
    LET hits == {i \in DOMAIN l.m_Processes :
                    l.m_Processes[i].m_ID = newer_version.m_ID}
        first == CHOOSE i \in hits : \A j \in hits : i <= j
    IN  [m_Processes |-> [l.m_Processes EXCEPT ![first] = newer_version],
         m_ProcessesMap |-> Put(l.m_ProcessesMap, newer_version.m_ID, newer_version)]

\* PdvColumn::PDV_CPU, the third column
PDV_CPU == 2

\* ProcessesDataView::ProcessesDataView: the list is empty and
\* UpdateProcessList leaves no rows; nothing is selected or sorted yet
ViewInit ==
    /\ m_ProcessList = EmptyList
    /\ m_Indices = <<>>
    /\ m_SelectedIndex = -1
    /\ m_SelectedProcess = NoProcess
    /\ m_LastSortedColumn = -1
    /\ m_ThreadUsage = 0

----------------------------------------------------------------------------
(* Actions of Load *)

\* Load(file_name, ...): open the file
OpenFile ==
    /\ pc = "open"
    /\ IF ~file.exists
       THEN Deliver("OnCaptureFailed", OpenErrorMessage(file_name)) /\ pc' = "done"
       ELSE pc' = "header" /\ UNCHANGED log
    /\ UNCHANGED <<file, stream, pos, cancellation_requested, header, capture_info,
                   timer_info, process, module_map, selected_functions, phase, idx,
                   cancel_at, events_after_cancel, timer_unread_at_cancel,
                   malformed_read>>
    /\ UNCHANGED <<chainVars, captureVars, moduleVars, viewVars>>

\* Load(stream, ...): the header message and the version check
ReadHeader ==
    /\ pc = "header"
    /\ LET r == ReadMessage(stream, pos)
           h == ParseCaptureHeader(r.payload)
       IN  /\ pos' = r.pos
           /\ header' = IF r.ok THEN h ELSE header
           /\ IF ~r.ok \/ h.version = <<>>
              THEN Deliver("OnCaptureFailed", ParseErrorMessage(file_name)) /\ pc' = "done"
              ELSE IF ~VersionSupported(h.version)
              THEN /\ Deliver("OnCaptureFailed",
                              IncompatibleVersionErrorMessage(file_name, h.version))
                   /\ pc' = "done"
              ELSE pc' = "capture_info" /\ UNCHANGED log
    /\ malformed_read' = (malformed_read \/ MalformedAt(stream, pos))
    /\ UNCHANGED <<file, stream, cancellation_requested, capture_info, timer_info,
                   process, module_map, selected_functions, phase, idx, cancel_at,
                   events_after_cancel, timer_unread_at_cancel>>
    /\ UNCHANGED <<chainVars, captureVars, moduleVars, viewVars>>

\* Load(stream, ...): the metadata message
ReadCaptureInfo ==
    /\ pc = "capture_info"
    /\ LET r == ReadMessage(stream, pos)
       IN  /\ pos' = r.pos
           /\ IF ~r.ok
              THEN /\ Deliver("OnCaptureFailed", ParseErrorMessage(file_name))
                   /\ pc' = "done"
                   /\ UNCHANGED capture_info
              ELSE /\ capture_info' = ParseCaptureInfo(r.payload)
                   /\ pc' = "check1"
                   /\ UNCHANGED log
    /\ malformed_read' = (malformed_read \/ MalformedAt(stream, pos))
    /\ UNCHANGED <<file, stream, cancellation_requested, header, timer_info, process,
                   module_map, selected_functions, phase, idx, cancel_at,
                   events_after_cancel, timer_unread_at_cancel>>
    /\ UNCHANGED <<chainVars, captureVars, moduleVars, viewVars>>

\* LoadCaptureInfo: the process, the first check of the flag, the modules
LoadProcessAndModules ==
    /\ pc = "check1"
    /\ IF CancellationRequested
       THEN /\ Cancelled
            /\ process' = [info |-> TranslateProcess(capture_info.process), modules |-> {}]
            /\ UNCHANGED module_map
       ELSE /\ process' = [info |-> TranslateProcess(capture_info.process),
                           modules |-> {TranslateModule(capture_info.modules[k]) :
                                            k \in 1..Len(capture_info.modules)}]
            /\ module_map' = ModuleMapOf(capture_info.modules)
            /\ pc' = "check2"
            /\ UNCHANGED log
    /\ UNCHANGED <<file, stream, pos, cancellation_requested, header, capture_info,
                   timer_info, selected_functions, phase, idx, cancel_at,
                   events_after_cancel, timer_unread_at_cancel, malformed_read>>
    /\ UNCHANGED <<chainVars, captureVars, moduleVars, viewVars>>

\* CHECK(module_it != module_map.end()) holds for every selected function
SelectedFunctionsCheck ==
    \A k \in 1..Len(capture_info.selected_functions) :
        capture_info.selected_functions[k].loaded_module_path \in DOMAIN module_map

\* LoadCaptureInfo: the second check of the flag, the selected functions
LoadSelectedFunctions ==
    /\ pc = "check2"
    /\ IF CancellationRequested
       THEN Cancelled /\ UNCHANGED selected_functions
       ELSE IF ~SelectedFunctionsCheck
       THEN pc' = "aborted" /\ UNCHANGED <<log, selected_functions>>
       ELSE /\ selected_functions' =
                LET fs == capture_info.selected_functions
                    addr(k) == GetAbsoluteAddress(fs[k], module_map[fs[k].loaded_module_path])
                IN  [a \in {addr(k) : k \in 1..Len(fs)} |->
                        fs[CHOOSE k \in 1..Len(fs) :
                              /\ addr(k) = a
                              /\ \A j \in (k + 1)..Len(fs) : addr(j) # a]]
            /\ pc' = "check3"
            /\ UNCHANGED log
    /\ UNCHANGED <<file, stream, pos, cancellation_requested, header, capture_info,
                   timer_info, process, module_map, phase, idx, cancel_at,
                   events_after_cancel, timer_unread_at_cancel, malformed_read>>
    /\ UNCHANGED <<chainVars, captureVars, moduleVars, viewVars>>

\* LoadCaptureInfo: the third check of the flag
CheckBeforeStart ==
    /\ pc = "check3"
    /\ IF CancellationRequested THEN Cancelled ELSE pc' = "start" /\ UNCHANGED log
    /\ UNCHANGED <<file, stream, pos, cancellation_requested, header, capture_info,
                   timer_info, process, module_map, selected_functions, phase, idx,
                   cancel_at, events_after_cancel, timer_unread_at_cancel,
                   malformed_read>>
    /\ UNCHANGED <<chainVars, captureVars, moduleVars, viewVars>>

\* mutant: the events are delivered without OnCaptureStarted
CaptureStartedNotDelivered ==
    /\ pc = "start"
    /\ pc' = "loop_head"
    /\ phase' = 1
    /\ idx' = 1
    /\ UNCHANGED <<file, stream, pos, cancellation_requested, header, capture_info,
                   timer_info, process, module_map, selected_functions, log, cancel_at,
                   events_after_cancel, timer_unread_at_cancel, malformed_read>>
    /\ UNCHANGED <<chainVars, captureVars, moduleVars, viewVars>>

\* capture_listener->OnCaptureStarted(process, selected_functions, selected_tracepoints)
CaptureStarted ==
    /\ pc = "start"
    /\ Deliver("OnCaptureStarted",
               [process |-> process, selected_functions |-> selected_functions,
                selected_tracepoints |->
                    {capture_info.tracepoint_infos[k] :
                        k \in 1..Len(capture_info.tracepoint_infos)}])
    /\ pc' = "loop_head"
    /\ phase' = 1
    /\ idx' = 1
    /\ UNCHANGED <<file, stream, pos, cancellation_requested, header, capture_info,
                   timer_info, process, module_map, selected_functions, cancel_at,
                   events_after_cancel, timer_unread_at_cancel, malformed_read>>
    /\ UNCHANGED <<chainVars, captureVars, moduleVars, viewVars>>

\* the head of one of the eight for-loops: the loop condition, then the flag
LoopHead ==
    /\ pc = "loop_head"
    /\ IF idx > Len(capture_info[LoopField[phase]])
       THEN /\ IF phase < Len(LoopField)
               THEN phase' = phase + 1 /\ pc' = "loop_head"
               ELSE phase' = phase /\ pc' = "timer_read"
            /\ idx' = 1
            /\ UNCHANGED log
       ELSE /\ IF CancellationRequested THEN Cancelled
               ELSE pc' = "loop_call" /\ UNCHANGED log
            /\ UNCHANGED <<phase, idx>>
    /\ UNCHANGED <<file, stream, pos, cancellation_requested, header, capture_info,
                   timer_info, process, module_map, selected_functions, cancel_at,
                   events_after_cancel, timer_unread_at_cancel, malformed_read>>
    /\ UNCHANGED <<chainVars, captureVars, moduleVars, viewVars>>

\* the body of the loop: the type-specific callback
LoopCall ==
    /\ pc = "loop_call"
    /\ Deliver(LoopCallback[phase], capture_info[LoopField[phase]][idx])
    /\ NoteEvent
    /\ idx' = idx + 1
    /\ pc' = "loop_head"
    /\ UNCHANGED <<file, stream, pos, cancellation_requested, header, capture_info,
                   timer_info, process, module_map, selected_functions, phase,
                   cancel_at, timer_unread_at_cancel, malformed_read>>
    /\ UNCHANGED <<chainVars, captureVars, moduleVars, viewVars>>

\* while (internal::ReadMessage(&timer_info, coded_input)) ... OnCaptureComplete()
TimerRead ==
    /\ pc = "timer_read"
    /\ LET r == ReadMessage(stream, pos)
       IN  /\ pos' = r.pos
           /\ IF r.ok
              THEN /\ timer_info' = ParseTimerInfo(r.payload)
                   /\ pc' = "timer_check"
                   /\ UNCHANGED log
              ELSE /\ Deliver("OnCaptureComplete", <<>>)
                   /\ pc' = "done"
                   /\ UNCHANGED timer_info
    /\ malformed_read' = (malformed_read \/ MalformedAt(stream, pos))
    /\ UNCHANGED <<file, stream, cancellation_requested, header, capture_info, process,
                   module_map, selected_functions, phase, idx, cancel_at,
                   events_after_cancel, timer_unread_at_cancel>>
    /\ UNCHANGED <<chainVars, captureVars, moduleVars, viewVars>>

\* mutant: the timer loop does not check the flag
TimerCheckMissing ==
    /\ pc = "timer_check"
    /\ pc' = "timer_call"
    /\ UNCHANGED <<file, stream, pos, cancellation_requested, header, capture_info,
                   timer_info, process, module_map, selected_functions, phase, idx, log,
                   cancel_at, events_after_cancel, timer_unread_at_cancel,
                   malformed_read>>
    /\ UNCHANGED <<chainVars, captureVars, moduleVars, viewVars>>

\* the check of the flag in the timer loop
TimerCheck ==
    /\ pc = "timer_check"
    /\ IF CancellationRequested THEN Cancelled ELSE pc' = "timer_call" /\ UNCHANGED log
    /\ UNCHANGED <<file, stream, pos, cancellation_requested, header, capture_info,
                   timer_info, process, module_map, selected_functions, phase, idx,
                   cancel_at, events_after_cancel, timer_unread_at_cancel,
                   malformed_read>>
    /\ UNCHANGED <<chainVars, captureVars, moduleVars, viewVars>>

\* capture_listener->OnTimer(timer_info)
TimerCall ==
    /\ pc = "timer_call"
    /\ Deliver("OnTimer", timer_info)
    /\ NoteEvent
    /\ pc' = "timer_read"
    /\ UNCHANGED <<file, stream, pos, cancellation_requested, header, capture_info,
                   timer_info, process, module_map, selected_functions, phase, idx,
                   cancel_at, timer_unread_at_cancel, malformed_read>>
    /\ UNCHANGED <<chainVars, captureVars, moduleVars, viewVars>>

\* another thread sets the flag while Load runs
RequestCancel ==
    /\ pc \notin {"done", "aborted"}
    /\ ~cancellation_requested
    /\ cancellation_requested' = TRUE
    /\ cancel_at' = pc
    /\ timer_unread_at_cancel' = ReadMessage(stream, pos).ok
    /\ UNCHANGED <<file, stream, pos, pc, header, capture_info, timer_info, process,
                   module_map, selected_functions, phase, idx, log,
                   events_after_cancel, malformed_read>>
    /\ UNCHANGED <<chainVars, captureVars, moduleVars, viewVars>>

NextLoad ==
    \/ OpenFile
    \/ ReadHeader
    \/ ReadCaptureInfo
    \/ LoadProcessAndModules
    \/ LoadSelectedFunctions
    \/ CheckBeforeStart
    \/ CaptureStarted
    \/ LoopHead
    \/ LoopCall
    \/ TimerRead
    \/ TimerCheck
    \/ TimerCall
    \/ RequestCancel

InitLoad == LoadInit /\ ChainInit /\ CaptureIdle /\ ModulesInit /\ ViewInit

SpecLoad == InitLoad /\ [][NextLoad]_vars

----------------------------------------------------------------------------
(* TimerBlock and TimerChain *)

Min(a, b) == IF a <= b THEN a ELSE b
Max(a, b) == IF a >= b THEN a ELSE b

\* the timers that are appended: [start, end] with start <= end
Timers == {t \in [start : 0..MaxTimestamp, end : 0..MaxTimestamp] : t.start <= t.end}

\* TimerBlock::size, TimerBlock::at_capacity
BlockSize(b) == Len(b.data_)

\* mutant: a block counts as full one timer early
AtCapacityOneEarly(b) == BlockSize(b) = kBlockSize - 1

AtCapacity(b) == BlockSize(b) = kBlockSize

\* mutant: min_timestamp_ is overwritten instead of minimised
BlockEmplaceBackOverwriteMin(b, timer) ==
    [b EXCEPT !.data_ = Append(@, timer),
              !.min_timestamp_ = timer.start,
              !.max_timestamp_ = Max(timer.end, @)]

\* mutant: the timer is inserted in front of the earlier ones
BlockEmplaceFront(b, timer) ==
    [b EXCEPT !.data_ = <<timer>> \o @,
              !.min_timestamp_ = Min(timer.start, @),
              !.max_timestamp_ = Max(timer.end, @)]

\* TimerBlock::emplace_back, after its CHECK
BlockEmplaceBack(b, timer) ==
    [b EXCEPT !.data_ = Append(@, timer),
              !.min_timestamp_ = Min(timer.start, @),
              !.max_timestamp_ = Max(timer.end, @)]

\* TimerBlock::Intersects: [min, max] against [min_timestamp_, max_timestamp_]
Intersects(b, min, max) == min <= b.max_timestamp_ /\ max >= b.min_timestamp_

\* a TextBox*: the block and the index of the timer in its data_; nullptr is
\* NoElement
NoElement == [block |-> 0, index |-> 0]

ElementAt(k, i) == [block |-> k, index |-> i]

IsElement(bs, e) ==
    /\ e.block \in 1..Len(bs)
    /\ e.index \in 1..Len(bs[e.block].data_)

\* TimerChain::GetBlockContaining: the block whose data_ holds the element
GetBlockContaining(bs, e) == IF IsElement(bs, e) THEN e.block ELSE 0

\* TimerChain::GetElementAfter: the next timer of the block, else the first
\* timer of the next block
GetElementAfter(bs, e) ==
    LET k == GetBlockContaining(bs, e)
    IN  IF k = 0 THEN NoElement
        ELSE IF e.index < Len(bs[k].data_) THEN ElementAt(k, e.index + 1)
        ELSE IF bs[k].next_ # 0 /\ Len(bs[bs[k].next_].data_) > 0
             THEN ElementAt(bs[k].next_, 1)
        ELSE NoElement

\* TimerChain::GetElementBefore: the previous timer of the block, else the
\* last timer of the previous block
GetElementBefore(bs, e) ==
    LET k == GetBlockContaining(bs, e)
    IN  IF k = 0 THEN NoElement
        ELSE IF e.index > 1 THEN ElementAt(k, e.index - 1)
        ELSE IF bs[k].prev_ # 0 /\ Len(bs[bs[k].prev_].data_) > 0
             THEN ElementAt(bs[k].prev_, Len(bs[bs[k].prev_].data_))
        ELSE NoElement

\* mutant: the new block is not linked after the current one
AllocateNewBlockUnlinked(bs, cur) ==
    [blocks |-> Append(bs, NewTimerBlock(cur)), current_ |-> Len(bs) + 1]

\* TimerChain::AllocateNewBlock, after its CHECK: the blocks and current_
AllocateNewBlock(bs, cur) ==
    [blocks |-> Append([bs EXCEPT ![cur].next_ = Len(bs) + 1], NewTimerBlock(cur)),
     current_ |-> Len(bs) + 1]

\* TimerChain::emplace_back
EmplaceBack(timer) ==
    /\ last_op # "check_failed"
    /\ num_items_ < MaxAppends
    /\ LET full == AtCapacity(blocks[current_])
           a == IF full THEN AllocateNewBlock(blocks, current_)
                ELSE [blocks |-> blocks, current_ |-> current_]
       IN  IF (full /\ blocks[current_].next_ # 0)
               \/ ~(BlockSize(a.blocks[a.current_]) < kBlockSize)
           THEN /\ last_op' = "check_failed"
                /\ UNCHANGED <<blocks, root_, current_, num_blocks_, num_items_>>
           ELSE /\ blocks' = [a.blocks EXCEPT ![a.current_] = BlockEmplaceBack(@, timer)]
                /\ current_' = a.current_
                /\ num_blocks_' = IF full THEN num_blocks_ + 1 ELSE num_blocks_
                /\ num_items_' = num_items_ + 1
                /\ last_op' = IF full THEN "allocate" ELSE "append"
                /\ UNCHANGED root_
    /\ last_timer' = timer
    /\ UNCHANGED <<loadVars, captureVars, moduleVars, viewVars>>

NextChain == \E timer \in Timers : EmplaceBack(timer)

InitChain == LoadIdle /\ ChainInit /\ CaptureIdle /\ ModulesInit /\ ViewInit

SpecChain == InitChain /\ [][NextChain]_vars

----------------------------------------------------------------------------
(* Capture: the live session                                               *)
(* A handler is an operator on a world w: the statics c, the session id,   *)
(* m_IsRecording (rec), and what the call has sent so far to the agent     *)
(* (sent), to the UI (ui) and to the sampling profiler / event tracer      *)
(* (profiler).  GCoreApp and GTimerManager exist; Unreal support and the   *)
(* OutputDebugString hook are off.                                         *)

World ==
    [c |-> Capture, id |-> GSessionID, rec |-> GTimerManager.m_IsRecording,
     arg |-> <<>>, result |-> "", sent |-> <<>>, ui |-> <<>>, profiler |-> <<>>]

\* what the environment answers during a call: Injection::Inject,
\* GTcpServer->HasConnection, and (WIN32) the tracking parameters
Envs == [inject_ok : BOOLEAN, has_connection : BOOLEAN, tracking : BOOLEAN]

\* TcpEntity::Send of a message with a list of addresses: the message
\* carries the session id of the moment
SendAddresses(w, type, addresses) ==
    [w EXCEPT !.sent = Append(@, [type |-> type, session |-> w.id,
                                  addresses |-> addresses])]

\* TcpEntity::Send of a message without payload
Send(w, type) == SendAddresses(w, type, {})

\* Capture::IsRemote
IsRemote(c) == GetIsRemote(c.GTargetProcess)

\* Capture::IsTrackingEvents
IsTrackingEvents(c, env) == IF WIN32 THEN env.tracking ELSE ~IsRemote(c)

\* Capture::IsCapturing
IsCapturing == GTimerManager.m_IsRecording

\* TimerManager::StartRecording, TimerManager::StopRecording
StartRecording(w) == [w EXCEPT !.rec = TRUE]
StopRecording(w) == [w EXCEPT !.rec = FALSE]

\* mutant: the call stacks of the earlier session are kept
ClearCaptureDataKeepCallstacks(c) ==
    [c EXCEPT !.GFunctionCountMap = {},
              !.GAddressInfos = {},
              !.GAddressToFunctionName = {},
              !.GZoneNames = {},
              !.GSelectedTextBox = 0,
              !.GSelectedThreadId = 0,
              !.GNumProfileEvents = 0,
              !.GHasContextSwitches = FALSE,
              !.GNumLinuxEvents = 0,
              !.GNumContextSwitches = 0]

\* Capture::ClearCaptureData
ClearCaptureData(c) ==
    [c EXCEPT !.GFunctionCountMap = {},
              !.GCallstacks = {},
              !.GAddressInfos = {},
              !.GAddressToFunctionName = {},
              !.GZoneNames = {},
              !.GSelectedTextBox = 0,
              !.GSelectedThreadId = 0,
              !.GNumProfileEvents = 0,
              !.GHasContextSwitches = FALSE,
              !.GNumLinuxEvents = 0,
              !.GNumContextSwitches = 0]

\* Capture::PreFunctionHooks
PreFunctionHooks(w) == Send(w, "Msg_ClearArgTracking")

RECURSIVE SendHooksPerAddress(_, _, _)
\* mutant: one hook message for every address
SendHooksPerAddress(w, addresses, i) ==
    IF addresses = {} THEN w
    ELSE LET a == CHOOSE x \in addresses : \A y \in addresses : x <= y
         IN  SendHooksPerAddress(
                 SendAddresses(w, GetMessageType(GetOrbitType(a)), {a}),
                 addresses \ {a}, i)

RECURSIVE SendHooksByType(_, _, _)
\* Capture::SendFunctionHooks, "Send all hooks by type": the types from the
\* i-th on; GSelectedAddressesByType[t] is the addresses of type t
SendHooksByType(w, addresses, i) ==
    IF i > Len(OrbitTypes) THEN w
    ELSE LET GSelectedAddressesByType ==
                 {a \in addresses : GetOrbitType(a) = OrbitTypes[i]}
             w1 == IF GSelectedAddressesByType # {}
                   THEN SendAddresses(w, GetMessageType(OrbitTypes[i]),
                                      GSelectedAddressesByType)
                   ELSE w
         IN  SendHooksByType(w1, addresses, i + 1)

\* mutant: the start command is sent before the selected functions
SendFunctionHooksStartFirst(w) ==
    LET w1 == PreFunctionHooks(w)
        p == w1.c.GTargetProcess
        GSelectedFunctions == GetSelectedFunctions(p)
        GSelectedFunctionsMap ==
            {e \in w1.c.GSelectedFunctionsMap : e.key \notin GSelectedFunctions}
                \cup {[key |-> a, value |-> p] : a \in GSelectedFunctions}
        w2 == [w1 EXCEPT
                 !.c.GSelectedFunctions = GSelectedFunctions,
                 !.c.GSelectedFunctionsMap = GSelectedFunctionsMap,
                 !.c.GVisibleFunctionsMap = GSelectedFunctionsMap,
                 !.c.GFunctionCountMap =
                     {e \in @ : e.key \notin GSelectedFunctions}
                         \cup {[key |-> a, value |-> 0] : a \in GSelectedFunctions}]
        w3 == IF IsRemote(w2.c)
              THEN SendAddresses(Send(w2, "Msg_StartCapture"),
                                 "Msg_RemoteSelectedFunctionsMap", GSelectedFunctions)
              ELSE w2
    IN  SendHooksByType(w3, GSelectedFunctions, 1)

\* Capture::SendFunctionHooks
SendFunctionHooks(w) ==
    LET w1 == PreFunctionHooks(w)
        p == w1.c.GTargetProcess
        GSelectedFunctions == GetSelectedFunctions(p)
        GSelectedFunctionsMap ==
            {e \in w1.c.GSelectedFunctionsMap : e.key \notin GSelectedFunctions}
                \cup {[key |-> a, value |-> p] : a \in GSelectedFunctions}
        w2 == [w1 EXCEPT
                 !.c.GSelectedFunctions = GSelectedFunctions,
                 !.c.GSelectedFunctionsMap = GSelectedFunctionsMap,
                 !.c.GVisibleFunctionsMap = GSelectedFunctionsMap,
                 !.c.GFunctionCountMap =
                     {e \in @ : e.key \notin GSelectedFunctions}
                         \cup {[key |-> a, value |-> 0] : a \in GSelectedFunctions}]
        w3 == IF IsRemote(w2.c)
              THEN Send(SendAddresses(w2, "Msg_RemoteSelectedFunctionsMap",
                                      GSelectedFunctions),
                        "Msg_StartCapture")
              ELSE w2
    IN  SendHooksByType(w3, GSelectedFunctions, 1)

\* Capture::Inject
Inject(w, env) ==
    [w EXCEPT !.c.GInjected = env.inject_ok /\ env.has_connection,
              !.c.GInjectedProcess =
                  IF env.inject_ok THEN GetName(w.c.GTargetProcess) ELSE @]

\* Capture::Connect
Connect(w, env) == IF ~w.c.GInjected THEN Inject(w, env) ELSE w

\* mutant: a capture is started although no process is selected
NoProcessSelectedIgnored(c) == FALSE

\* Capture::StartCapture, its first test
NoProcessSelected(c) == GetName(c.GTargetProcess) = <<>>

\* mutant: the session id is left as it is
SameSessionID(id) == id

\* ++Message::GSessionID
NextSessionID(id) == id + 1

\* Capture::StartCapture
StartCapture(w, env) ==
    IF NoProcessSelected(w.c)
    THEN [w EXCEPT !.result = "No process selected. Please choose a target process for the capture."]
    ELSE
    LET w1 == IF WIN32 /\ ~IsRemote(w.c) THEN Connect(w, env) ELSE w
    IN  IF WIN32 /\ ~IsRemote(w.c) /\ ~w1.c.GInjected
        THEN [w1 EXCEPT !.result = "Connection error."]
        ELSE
        LET w2 == [w1 EXCEPT !.c.GInjected = TRUE, !.id = NextSessionID(@)]
            w3 == StartRecording(Send(w2, "Msg_NewSession"))
            w4 == SendFunctionHooks([w3 EXCEPT !.c = ClearCaptureData(@)])
            w5 == IF IsTrackingEvents(w4.c, env)
                  THEN IF WIN32 THEN [w4 EXCEPT !.profiler = Append(@, "GEventTracer.Start")]
                       ELSE w4
                  ELSE IF IsRemote(w4.c)
                  THEN [w4 EXCEPT !.profiler = @ \o <<"NewSamplingProfiler",
                                                      "SetIsLinuxPerf", "StartCapture">>]
                  ELSE w4
            w6 == [w5 EXCEPT !.ui = Append(@, "startcapture")]
            w7 == IF w6.c.GSelectedFunctionsMap # {}
                  THEN [w6 EXCEPT !.ui = Append(@, "gotolive")]
                  ELSE w6
        IN  [w7 EXCEPT !.result = "success"]

\* Capture::StopCapture
StopCapture(w, env) ==
    LET w1 == IF IsTrackingEvents(w.c, env)
              THEN IF WIN32 THEN [w EXCEPT !.profiler = Append(@, "GEventTracer.Stop")]
                   ELSE w
              ELSE IF IsRemote(w.c)
              THEN [w EXCEPT !.profiler = @ \o <<"StopCapture", "ProcessSamples">>,
                             !.ui = Append(@, "RefreshCaptureView")]
              ELSE w
    IN  IF ~w1.c.GInjected THEN w1
        ELSE StopRecording(Send(w1, "Msg_StopCapture"))

\* Capture::Update; GIsSampling is false (only Capture::StartSampling sets
\* it, which is not among the calls made here) and GPdbDbg is not set
Update(w, env) ==
    IF WIN32 /\ ~IsRemote(w.c) /\ w.c.GInjected /\ ~env.has_connection
    THEN [StopCapture(w, env) EXCEPT !.c.GInjected = FALSE]
    ELSE w

\* Capture::SetTargetProcess
SetTargetProcess(w, a_Process) ==
    IF a_Process # w.c.GTargetProcess
    THEN [w EXCEPT !.c.GInjected = FALSE,
                   !.c.GInjectedProcess = <<>>,
                   !.c.GTargetProcess = a_Process,
                   !.profiler = Append(@, "make_shared<SamplingProfiler>"),
                   !.c.GSelectedFunctionsMap = {},
                   !.c.GFunctionCountMap = {}]
    ELSE w

RECURSIVE SumOfCounts(_)
SumOfCounts(m) ==
    IF m = {} THEN 0
    ELSE LET e == CHOOSE x \in m : TRUE IN e.value + SumOfCounts(m \ {e})

\* the items of session data held: the entries of the maps and the counted
\* events and calls
Recorded(c) ==
    Cardinality(c.GCallstacks) + Cardinality(c.GAddressInfos)
        + Cardinality(c.GZoneNames) + c.GNumLinuxEvents
        + SumOfCounts(c.GFunctionCountMap)

\* CallStack::Hash: a hash of the address sequence; call stacks can collide
Hash(m_Data) == ((m_Data - 1) % MaxKey) + 1

\* the call stacks that are added
CallStacks == {[m_Hash |-> Hash(d), m_Data |-> d] : d \in 1..MaxContent}

\* mutant: a call stack whose hash is in the table is not stored
AddCallstackIfAbsent(w, a_CallStack) ==
    IF a_CallStack.m_Hash \in Keys(w.c.GCallstacks) THEN w
    ELSE [w EXCEPT !.c.GCallstacks =
             @ \cup {[key |-> a_CallStack.m_Hash, value |-> w.id,
                      data |-> a_CallStack.m_Data]}]

\* Capture::AddCallstack: GCallstacks[m_Hash] = a copy of the call stack; the
\* value of an entry is the session that recorded it, its data the copy
AddCallstack(w, a_CallStack) ==
    [w EXCEPT !.c.GCallstacks =
        {e \in @ : e.key # a_CallStack.m_Hash}
            \cup {[key |-> a_CallStack.m_Hash, value |-> w.id,
                    data |-> a_CallStack.m_Data]}]

\* nullptr as the result of GetCallstack
NoCallstack == 0

\* Capture::GetCallstack
GetCallstack(c, a_ID) ==
    IF \E e \in c.GCallstacks : e.key = a_ID
    THEN (CHOOSE e \in c.GCallstacks : e.key = a_ID).data
    ELSE NoCallstack

\* Capture::RegisterZoneName
RegisterZoneName(w, a_ID) == [w EXCEPT !.c.GZoneNames = Put(@, a_ID, w.id)]

\* an address info of the agent is stored, with the name of its function
AddAddressInfo(w, address) ==
    [w EXCEPT !.c.GAddressInfos = Put(@, address, w.id),
              !.c.GAddressToFunctionName = Put(@, address, w.id)]

\* events of the agent are counted
CountEvents(w) ==
    [w EXCEPT !.c.GNumProfileEvents = @ + 1,
              !.c.GNumLinuxEvents = @ + 1,
              !.c.GNumContextSwitches = @ + 1,
              !.c.GHasContextSwitches = TRUE]

\* ++GFunctionCountMap[address]
CountFunctionCall(w, address) ==
    [w EXCEPT !.c.GFunctionCountMap =
        Put(@, address,
            IF address \in Keys(@)
            THEN (CHOOSE e \in @ : e.key = address).value + 1
            ELSE 1)]

\* a call returns: the statics, the session id and the recording flag are
\* as the handler left them; call.recording is IsCapturing() at its start
\* and call.arg what the call was given, where a property reads it
Return(op, w) ==
    /\ Capture' = w.c
    /\ GSessionID' = w.id
    /\ GTimerManager' = [m_IsRecording |-> w.rec]
    /\ call' = [op |-> op, arg |-> w.arg, recording |-> GTimerManager.m_IsRecording,
                result |-> w.result, sent |-> w.sent, ui |-> w.ui,
                profiler |-> w.profiler]
    /\ UNCHANGED <<WIN32, loadVars, chainVars, GCallstackMutex, threads, unselected,
                   moduleVars, viewVars>>

CallStartCapture ==
    \E env \in Envs :
        LET w == StartCapture(World, env)
        IN  w.id <= MaxSessions /\ Return("StartCapture", w)

CallStopCapture ==
    \E env \in Envs :
        LET w == StopCapture(World, env)
        IN  Return("StopCapture", w)

CallUpdate ==
    \E env \in Envs :
        LET w == Update(World, env)
        IN  Return("Update", [w EXCEPT !.arg = [has_connection |-> env.has_connection]])

CallSetTargetProcess ==
    \E a_Process \in Processes :
        LET w == SetTargetProcess(World, a_Process)
        IN  Return("SetTargetProcess", w)

CallAddCallstack ==
    \E a_CallStack \in CallStacks :
        LET w == AddCallstack(World, a_CallStack)
        IN  /\ Recorded(w.c) <= MaxRecorded
            /\ Return("AddCallstack",
                      [w EXCEPT !.arg =
                          [m_Hash |-> a_CallStack.m_Hash, m_Data |-> a_CallStack.m_Data,
                           interned |-> GetCallstack(Capture, a_CallStack.m_Hash)
                                            = a_CallStack.m_Data]])

CallRegisterZoneName ==
    /\ Recorded(Capture) < MaxRecorded
    /\ \E a_ID \in 1..MaxKey : Return("RegisterZoneName", RegisterZoneName(World, a_ID))

CallAddAddressInfo ==
    /\ Recorded(Capture) < MaxRecorded
    /\ \E address \in 1..MaxKey : Return("AddAddressInfo", AddAddressInfo(World, address))

CallCountEvents ==
    /\ Recorded(Capture) < MaxRecorded
    /\ Return("CountEvents", CountEvents(World))

CallCountFunctionCall ==
    /\ Recorded(Capture) < MaxRecorded
    /\ \E address \in 1..MaxKey :
          Return("CountFunctionCall", CountFunctionCall(World, address))

\* the user clears the selection of the first function (Function::UnSelect);
\* the flags of the other functions stay as they are
CallUnSelect ==
    /\ 1 \notin unselected
    /\ unselected' = unselected \cup {1}
    /\ call' = [NoCall EXCEPT !.op = "UnSelect",
                              !.recording = GTimerManager.m_IsRecording]
    /\ UNCHANGED <<WIN32, Capture, GSessionID, GTimerManager, GCallstackMutex, threads,
                   loadVars, chainVars, moduleVars, viewVars>>

NextCapture ==
    \/ CallStartCapture
    \/ CallStopCapture
    \/ CallUpdate
    \/ CallSetTargetProcess
    \/ CallAddCallstack
    \/ CallRegisterZoneName
    \/ CallAddAddressInfo
    \/ CallCountEvents
    \/ CallCountFunctionCall

InitCapture == LoadIdle /\ ChainInit /\ CaptureInit /\ ModulesInit /\ ViewInit

SpecCapture == InitCapture /\ [][NextCapture]_vars

\* the captures of a user who changes the selection between them; no session
\* data is recorded
NextSelection ==
    \/ CallUnSelect
    \/ CallSetTargetProcess
    \/ CallStartCapture
    \/ CallStopCapture
    \/ CallUpdate

SpecSelection == InitCapture /\ [][NextSelection]_vars

----------------------------------------------------------------------------
(* Capture::AddCallstack and Capture::GetCallstack called by several        *)
(* threads: a call is the steps of its body, the ScopeLock included.       *)

\* an entry of GCallstacks whose shared_ptr is being written
BeingWritten == 0 - 1

\* ScopeLock lock(GCallstackMutex) can be taken
MutexFree(m) == m = 0

InternUnchanged ==
    UNCHANGED <<WIN32, GSessionID, GTimerManager, call, unselected, loadVars, chainVars,
                moduleVars, viewVars>>

\* a producer thread calls Capture::AddCallstack(a_CallStack)
EnterAddCallstack(t, a_CallStack) ==
    /\ t \in Producers
    /\ threads[t].pc = "idle"
    /\ threads' = [threads EXCEPT ![t] = [pc |-> "lock", op |-> "AddCallstack",
                                           arg |-> a_CallStack.m_Data, result |-> 0]]
    /\ UNCHANGED <<Capture, GCallstackMutex>>
    /\ InternUnchanged

\* the consumer thread calls Capture::GetCallstack(a_ID)
EnterGetCallstack(t, a_ID) ==
    /\ t = Consumer
    /\ threads[t].pc = "idle"
    /\ threads' = [threads EXCEPT ![t] = [pc |-> "lock", op |-> "GetCallstack",
                                           arg |-> a_ID, result |-> 0]]
    /\ UNCHANGED <<Capture, GCallstackMutex>>
    /\ InternUnchanged

\* ScopeLock lock(GCallstackMutex)
Lock(t) ==
    /\ threads[t].pc = "lock"
    /\ MutexFree(GCallstackMutex)
    /\ GCallstackMutex' = t
    /\ threads' = [threads EXCEPT ![t].pc =
                      IF threads[t].op = "AddCallstack" THEN "store" ELSE "find"]
    /\ UNCHANGED Capture
    /\ InternUnchanged

\* GCallstacks[m_Hash]: the entry is found or inserted, its pointer is
\* about to be assigned
StoreEntry(t) ==
    /\ threads[t].pc = "store"
    /\ Capture' = [Capture EXCEPT !.GCallstacks =
                      {e \in @ : e.key # Hash(threads[t].arg)}
                          \cup {[key |-> Hash(threads[t].arg), value |-> GSessionID,
                                 data |-> BeingWritten]}]
    /\ threads' = [threads EXCEPT ![t].pc = "assign"]
    /\ UNCHANGED GCallstackMutex
    /\ InternUnchanged

\* ... = std::make_shared<CallStack>(a_CallStack)
AssignEntry(t) ==
    /\ threads[t].pc = "assign"
    /\ Capture' = [Capture EXCEPT !.GCallstacks =
                      {e \in @ : e.key # Hash(threads[t].arg)}
                          \cup {[key |-> Hash(threads[t].arg), value |-> GSessionID,
                                 data |-> threads[t].arg]}]
    /\ threads' = [threads EXCEPT ![t].pc = "unlock"]
    /\ UNCHANGED GCallstackMutex
    /\ InternUnchanged

\* GCallstacks.find(a_ID) and the value that is returned
FindEntry(t) ==
    /\ threads[t].pc = "find"
    /\ threads' = [threads EXCEPT ![t].pc = "unlock",
                                  ![t].result = GetCallstack(Capture, threads[t].arg)]
    /\ UNCHANGED <<Capture, GCallstackMutex>>
    /\ InternUnchanged

\* ~ScopeLock and return
Unlock(t) ==
    /\ threads[t].pc = "unlock"
    /\ GCallstackMutex' = 0
    /\ threads' = [threads EXCEPT ![t].pc = "done"]
    /\ UNCHANGED Capture
    /\ InternUnchanged

NextIntern ==
    \E t \in Threads :
        \/ \E a_CallStack \in CallStacks : EnterAddCallstack(t, a_CallStack)
        \/ \E a_ID \in 1..MaxKey : EnterGetCallstack(t, a_ID)
        \/ Lock(t)
        \/ StoreEntry(t)
        \/ AssignEntry(t)
        \/ FindEntry(t)
        \/ Unlock(t)

InitIntern == LoadIdle /\ ChainInit /\ CaptureIdle /\ ModulesInit /\ ViewInit

SpecIntern == InitIntern /\ [][NextIntern]_vars

\* the main thread runs StartCapture -> ClearCaptureData: GCallstacks.clear(),
\* without a ScopeLock.  While another thread is inside AddCallstack or
\* GetCallstack the two accesses race, and the table keeps any part of its
\* entries; otherwise it is empty afterwards.
ResetCallstacks ==
    /\ Capture.GCallstacks # {}
    /\ \E kept \in SUBSET Capture.GCallstacks :
          /\ kept # Capture.GCallstacks
          /\ (\A t \in Threads : threads[t].pc \notin {"store", "assign", "find", "unlock"})
                => kept = {}
          /\ Capture' = [Capture EXCEPT !.GCallstacks = kept]
    /\ UNCHANGED <<GCallstackMutex, threads>>
    /\ InternUnchanged

NextInternReset == NextIntern \/ ResetCallstacks

SpecInternReset == InitIntern /\ [][NextInternReset]_vars

----------------------------------------------------------------------------
(* The modules view: ProcessesDataView selects a process, ModulesDataView  *)
(* lists its modules and resolves addresses against the process.           *)

\* UpdateModules(process_id, mods): the module set is replaced wholesale
UpdateModules(modules, mods) == mods

\* the module's [start, end) contains the address
ContainsAddress(module, address) ==
    module.m_AddressStart <= address /\ address < module.m_AddressEnd

\* FindModuleByAddress / Process::GetModuleFromAddress: the containing
\* module, the most recently loaded one if several contain the address
GetModuleFromAddress(modules, address) ==
    LET hits == {k \in 1..Len(modules) : ContainsAddress(modules[k], address)}
    IN  IF hits = {} THEN NoModule
        ELSE modules[CHOOSE k \in hits : \A j \in hits : j <= k]

ModulesUnchanged == UNCHANGED <<loadVars, chainVars, captureVars, viewVars>>

\* ProcessesDataView::OnSelect / SetRemoteProcess: the modules of the
\* process are listed anew (ListModules, or the process the agent sent), then
\* UpdateModuleDataView -> ModulesDataView::SetProcess copies them
OnSelect(mods) ==
    /\ menu.check
    /\ m_Process' = UpdateModules(m_Process, mods)
    /\ m_Modules' = m_Process'
    /\ menu' = [op |-> "OnSelect", address |-> 0, result |-> NoModule, check |-> TRUE]
    /\ ModulesUnchanged

\* an address of the selected process is resolved
Resolve(address) ==
    /\ menu.check
    /\ menu' = [op |-> "Resolve", address |-> address,
                result |-> GetModuleFromAddress(m_Process, address), check |-> TRUE]
    /\ UNCHANGED <<m_Process, m_Modules>>
    /\ ModulesUnchanged

\* ModulesDataView::OnContextMenu(MODULES_LOAD, {index}) for a module with
\* m_FoundPdb or IsDll(): the module is looked up in the process by its
\* start address; CHECK(process_module != nullptr) aborts the program
OnContextMenu(index) ==
    /\ menu.check
    /\ index \in 1..Len(m_Modules)
    /\ LET module == m_Modules[index]
           process_module == GetModuleFromAddress(m_Process, module.m_AddressStart)
       IN  menu' = [op |-> "OnContextMenu", address |-> module.m_AddressStart,
                    result |-> process_module, check |-> process_module # NoModule]
    /\ UNCHANGED <<m_Process, m_Modules>>
    /\ ModulesUnchanged

NextModules ==
    \/ \E mods \in ModuleLists : OnSelect(mods)
    \/ \E address \in Addresses : Resolve(address)
    \/ \E index \in 1..MaxModules : OnContextMenu(index)

InitModules == LoadIdle /\ ChainInit /\ CaptureIdle /\ ModulesInit /\ ViewInit

SpecModules == InitModules /\ [][NextModules]_vars

----------------------------------------------------------------------------
(* Actions of ProcessList: the calls made on a list that no view shows *)

\* a call on the list has returned; call.op is its name
ListReturn(op, l) ==
    /\ m_ProcessList' = l
    /\ call' = [NoCall EXCEPT !.op = op]
    /\ UNCHANGED <<WIN32, Capture, GSessionID, GTimerManager, GCallstackMutex, threads,
                   unselected, loadVars, chainVars, moduleVars, m_Indices,
                   m_SelectedIndex, m_SelectedProcess, m_LastSortedColumn,
                   m_ThreadUsage>>

CallRefresh ==
    \E snapshot \in ProcessInfos, opendir_ok \in BOOLEAN :
        ListReturn("Refresh", Refresh(m_ProcessList, snapshot, opendir_ok, {}))

CallUpdateFromRemote ==
    \E remote_list \in ProcessInfos :
        ListReturn("UpdateFromRemote", UpdateFromRemote(m_ProcessList, remote_list, {}))

\* the newer version is an object of its own
CallUpdateProcess ==
    \E info \in [m_ID : Pids, m_CpuUsage : CpuUsages] :
        /\ Contains(m_ProcessList, info.m_ID)
        /\ ListReturn("UpdateProcess",
                      UpdateProcess(m_ProcessList,
                                    [MakeShared(info.m_ID, Objects(m_ProcessList))
                                        EXCEPT !.m_CpuUsage = info.m_CpuUsage]))

CallClear == ListReturn("Clear", Clear(m_ProcessList))

NextProcessList ==
    \/ CallRefresh
    \/ CallUpdateFromRemote
    \/ CallUpdateProcess
    \/ CallClear

SpecProcessList == InitCapture /\ [][NextProcessList]_vars

----------------------------------------------------------------------------
(* Actions of ProcessesDataView, the view of the processes of this         *)
(* machine: SetRemoteProcessList is not among the calls made here, so      *)
(* m_IsRemote stays false; the filter is empty, the user does not change   *)
(* the sort column, and GParams.m_AutoReleasePdb is off.  The build is     *)
(* the Linux one.                                                          *)

\* ProcessesDataView::OnFilter and OnSort(PDV_CPU, {}): every process has a
\* row; the rows are in descending order of usage, rows of equal usage in
\* any order (std::sort)
SortedIndices(processes) ==
    LET n == Len(processes)
    IN  {s \in [1..n -> 0..(n - 1)] :
            /\ \A i, j \in 1..n : s[i] = s[j] => i = j
            /\ \A i, j \in 1..n :
                   i < j => ~(processes[s[j] + 1].m_CpuUsage
                                  > processes[s[i] + 1].m_CpuUsage)}

\* ProcessesDataView::GetProcess
GetProcess(l, indices, a_Row) == l.m_Processes[indices[a_Row + 1] + 1]

\* ProcessesDataView::SetSelectedItem: the first row that shows a process
\* with the id of the selected one
SetSelectedItem(l, indices, selected) ==
    LET rows == {i \in 0..(Len(indices) - 1) :
                    selected # NoProcess /\ GetProcess(l, indices, i).m_ID = selected.m_ID}
    IN  IF rows = {} THEN -1 ELSE CHOOSE i \in rows : \A j \in rows : i <= j

\* a pointer to an object; the usage is read through the list
Ref(p) == [p EXCEPT !.m_CpuUsage = 0]

\* ProcessesDataView::Refresh past its first test: the list is refreshed, the
\* rows are made, sorted and filtered, the selected row is looked up and the
\* thread usage of the target process, if it has threads, is sampled
RefreshRows(snapshot, opendir_ok, usage) ==
    LET l == UpdateCpuTimes(Refresh(m_ProcessList, snapshot, opendir_ok,
                                    {m_SelectedProcess} \ {NoProcess}),
                            snapshot)
    IN  /\ m_ProcessList' = l
        /\ m_Indices' \in SortedIndices(l.m_Processes)
        /\ m_LastSortedColumn' = PDV_CPU
        /\ m_SelectedIndex' = SetSelectedItem(l, m_Indices', m_SelectedProcess)
        /\ m_ThreadUsage' = IF Capture.GTargetProcess # 0 THEN usage
                            ELSE m_ThreadUsage
        /\ UNCHANGED m_SelectedProcess

\* mutant: the view is refreshed during a capture too
DataViewRefreshAlways(snapshot, opendir_ok, usage) ==
    RefreshRows(snapshot, opendir_ok, usage)

\* ProcessesDataView::Refresh
DataViewRefresh(snapshot, opendir_ok, usage) ==
    IF IsCapturing THEN UNCHANGED viewVars
    ELSE RefreshRows(snapshot, opendir_ok, usage)

\* ProcessesDataView::OnTimer
OnTimer ==
    /\ \E snapshot \in ProcessInfos, opendir_ok \in BOOLEAN, usage \in CpuUsages :
           DataViewRefresh(snapshot, opendir_ok, usage)
    /\ call' = [NoCall EXCEPT !.op = "OnTimer", !.recording = IsCapturing]
    /\ UNCHANGED <<WIN32, Capture, GSessionID, GTimerManager, GCallstackMutex, threads,
                   unselected, loadVars, chainVars, moduleVars>>

\* Process::ListModules: the modules the system reports for the process
ListModules(pid) ==
    <<[m_Name |-> 1, m_AddressStart |-> 0,
       m_AddressEnd |-> IF pid < MaxAddress THEN pid ELSE MaxAddress]>>

\* ProcessesDataView::OnSelect of a row: the process is selected, its modules
\* are listed, and UpdateModuleDataView hands it to ModulesDataView::SetProcess
\* and Capture::SetTargetProcess
OnSelectRow(a_Index) ==
    /\ a_Index \in 0..(Len(m_Indices) - 1)
    /\ LET proc == GetProcess(m_ProcessList, m_Indices, a_Index)
           w == SetTargetProcess(World, proc.m_ID)
       IN  /\ m_SelectedProcess' = Ref(proc)
           /\ m_Process' = UpdateModules(m_Process, ListModules(proc.m_ID))
           /\ m_Modules' = m_Process'
           /\ menu' = [op |-> "OnSelect", address |-> 0, result |-> NoModule,
                       check |-> TRUE]
           /\ Capture' = w.c
           /\ GSessionID' = w.id
           /\ GTimerManager' = [m_IsRecording |-> w.rec]
           /\ call' = [op |-> "OnSelect", arg |-> w.arg, recording |-> IsCapturing,
                       result |-> w.result, sent |-> w.sent,
                       ui |-> Append(w.ui, "FireRefreshCallbacks"),
                       profiler |-> w.profiler]
    /\ UNCHANGED <<WIN32, GCallstackMutex, threads, unselected, loadVars, chainVars,
                   m_ProcessList, m_Indices, m_SelectedIndex, m_LastSortedColumn,
                   m_ThreadUsage>>

NextProcessesView ==
    \/ OnTimer
    \/ \E a_Index \in 0..(Cardinality(Pids) - 1) : OnSelectRow(a_Index)
    \/ CallStartCapture
    \/ CallStopCapture

InitProcessesView == LoadIdle /\ ChainInit /\ CaptureIdle /\ ModulesInit /\ ViewInit

SpecProcessesView == InitProcessesView /\ [][NextProcessesView]_vars

----------------------------------------------------------------------------
(* Properties of capture_deserializer::Load (checked under SpecLoad) *)

CountOf(cb) == Cardinality({i \in 1..Len(log) : log[i].cb = cb})

Range(q) == {q[i] : i \in 1..Len(q)}

\* the header message can be read from the stream and declares a non-empty
\* version that is not the supported one
VersionMismatchInput ==
    /\ file.exists
    /\ ReadMessage(stream, 0).ok
    /\ ParseCaptureHeader(ReadMessage(stream, 0).payload).version
           \notin {<<>>, kRequiredCaptureVersion}

\* the header (supported version) and the metadata message can be read
HeaderAndMetadataReadable ==
    /\ file.exists
    /\ ReadMessage(stream, 0).ok
    /\ ParseCaptureHeader(ReadMessage(stream, 0).payload).version = kRequiredCaptureVersion
    /\ ReadMessage(stream, ReadMessage(stream, 0).pos).ok

\* the file is one header with the supported version, one metadata message
\* and n timer messages, all complete and parsable, and the metadata lists
\* the module of each of its selected functions
WellFormed ==
    /\ file.exists
    /\ file.kept = Len(FileBytes(file))
    /\ file.header = kRequiredCaptureVersion
    /\ 0 \notin Range(file.meta)
    /\ \A k \in 1..Len(file.timers) : 0 \notin Range(file.timers[k])
    /\ TagOf("selected_functions") \in Range(file.meta)
           => TagOf("module_a") \in Range(file.meta)

\* C1: a readable header that declares a non-empty version other than
\* kRequiredCaptureVersion makes Load deliver OnCaptureFailed exactly once and
\* nothing else; Load stops after the header.
C1_VersionMismatchFailsOnly ==
    VersionMismatchInput =>
        /\ pc \in {"open", "header", "done"}
        /\ Len(log) <= 1
        /\ \A i \in 1..Len(log) : log[i].cb = "OnCaptureFailed"
        /\ pc = "done" => Len(log) = 1

C1_Witness ==
    /\ VersionMismatchInput
    /\ pc = "done"
    /\ Len(log) = 1
    /\ log[1].cb = "OnCaptureFailed"

\* C2: OnCaptureStarted is delivered at most once, and every event callback
\* is preceded by it.
C2_StartedBeforeEvents ==
    /\ CountOf("OnCaptureStarted") <= 1
    /\ \A i \in 1..Len(log) :
          log[i].cb \in EventCallbacks =>
              \E j \in 1..(i - 1) : log[j].cb = "OnCaptureStarted"

C2_Witness ==
    /\ pc = "done"
    /\ CountOf("OnCaptureStarted") = 1
    /\ CountOf("OnAddressInfo") >= 1
    /\ CountOf("OnTimer") >= 1

\* C3: for a well-formed file and a flag that is never set, Load finishes with
\* OnCaptureStarted first (carrying the process descriptor and the module set
\* of the metadata), the n timers in stream order as the last n event
\* callbacks, and OnCaptureComplete last.
C3_RoundTrip ==
    (WellFormed /\ cancel_at = "never") =>
        /\ pc # "aborted"
        /\ pc = "done" =>
            LET n == Len(file.timers)
                m == Len(log)
            IN  /\ m >= n + 2
                /\ log[1].cb = "OnCaptureStarted"
                /\ log[1].arg.process.info =
                       (IF TagOf("process") \in Range(file.meta)
                        THEN SampleProcess ELSE DefaultProcess)
                /\ log[1].arg.process.modules =
                       {ModuleOfField(f) :
                           f \in {g \in {"module_a", "module_b"} :
                                     TagOf(g) \in Range(file.meta)}}
                /\ CountOf("OnTimer") = n
                /\ \A k \in 1..n :
                      /\ log[m - 1 - n + k].cb = "OnTimer"
                      /\ log[m - 1 - n + k].arg.fields = file.timers[k]
                /\ log[m].cb = "OnCaptureComplete"
                /\ CountOf("OnCaptureComplete") = 1

C3_Witness ==
    /\ WellFormed
    /\ cancel_at = "never"
    /\ pc = "done"
    /\ Len(file.timers) = 2
    /\ file.timers[1] # file.timers[2]
    /\ Cardinality(log[1].arg.process.modules) = 2

\* C4: whenever ReadMessage met a message with a short or unparsable payload
\* (and the load was not cancelled), Load reports OnCaptureFailed.
C4_MalformedReported ==
    (pc = "done" /\ malformed_read /\ cancel_at = "never") =>
        CountOf("OnCaptureFailed") >= 1

\* the flag was set after OnCaptureStarted, while a complete timer message
\* was still unread
CancelledWhileDelivering ==
    /\ cancel_at \in {"loop_head", "loop_call", "timer_read", "timer_check", "timer_call"}
    /\ timer_unread_at_cancel

\* C5: if the flag is set while events are delivered and a timer message is
\* still unread, at most one event callback follows and Load ends with
\* OnCaptureCancelled.
C5_CancelPrompt ==
    CancelledWhileDelivering =>
        /\ events_after_cancel <= 1
        /\ pc = "done" =>
              /\ log[Len(log)].cb = "OnCaptureCancelled"
              /\ CountOf("OnCaptureComplete") = 0

C5_Witness ==
    /\ CancelledWhileDelivering
    /\ pc = "done"
    /\ events_after_cancel = 1
    /\ Len(file.timers) = MaxTimers

\* C6 as claimed: with the flag set when Load is called on a stream, Load
\* ends with OnCaptureCancelled and no other callback.
C6_CancelledBeforeAnyRead ==
    (file.exists /\ cancel_at = "call" /\ pc = "done") =>
        (Len(log) = 1 /\ log[1].cb = "OnCaptureCancelled")

\* C6 as amended: the flag is first checked after the header and the
\* metadata message have been read.  With the flag set at the call, Load ends
\* with OnCaptureCancelled alone if both can be read (header of the supported
\* version), and with OnCaptureFailed alone otherwise.
C6_CancelledAfterMetadata ==
    (file.exists /\ cancel_at = "call") =>
        /\ pc \in {"open", "header", "capture_info", "check1", "done"}
        /\ Len(log) <= 1
        /\ pc = "done" =>
              /\ Len(log) = 1
              /\ log[1].cb = (IF HeaderAndMetadataReadable THEN "OnCaptureCancelled"
                              ELSE "OnCaptureFailed")

C6_Witness ==
    /\ cancel_at = "call"
    /\ HeaderAndMetadataReadable
    /\ pc = "done"
    /\ Len(log) = 1
    /\ log[1].cb = "OnCaptureCancelled"
    /\ Len(file.timers) >= 1

\* C7: no CHECK of Load or LoadCaptureInfo fails, whatever the stream holds.
C7_NeverFatal == pc # "aborted"

\* the message names the string v
Names(message, v) == \E k \in 1..Len(message.args) : message.args[k] = v

DeclaredVersion == ParseCaptureHeader(ReadMessage(stream, 0).payload).version

\* C8 as claimed: the message of a version mismatch names the version of the
\* file and the supported version.
C8_MessageNamesBothVersions ==
    (VersionMismatchInput /\ pc = "done") =>
        /\ Names(log[1].arg, DeclaredVersion)
        /\ Names(log[1].arg, kRequiredCaptureVersion)

\* C8 as amended: the message names the file and the version declared in its
\* header, and not the supported version.
C8_MessageNamesFileVersion ==
    (VersionMismatchInput /\ pc = "done") =>
        /\ log[1].cb = "OnCaptureFailed"
        /\ Names(log[1].arg, file_name)
        /\ Names(log[1].arg, DeclaredVersion)
        /\ ~Names(log[1].arg, kRequiredCaptureVersion)

C8_Witness ==
    /\ VersionMismatchInput
    /\ pc = "done"
    /\ Len(DeclaredVersion) = 2
    /\ Names(log[1].arg, DeclaredVersion)

\* the terminal callbacks delivered so far, by their position in the log
TerminalsDelivered == {i \in 1..Len(log) : log[i].cb \in TerminalCallbacks}

\* the call of Load is over: it has returned, or a CHECK has ended the program
LoadOver == pc \in {"done", "aborted"}

\* C29: every call of Load delivers exactly one terminal callback
\* (OnCaptureComplete, OnCaptureCancelled or OnCaptureFailed), and no
\* listener callback is delivered after it.
C29_ExactlyOneTerminalLast ==
    /\ Cardinality(TerminalsDelivered) <= 1
    /\ \A i \in TerminalsDelivered : i = Len(log)
    /\ LoadOver => Cardinality(TerminalsDelivered) = 1

\* the phases of the event callbacks, in the order of the claim
PhaseOrder ==
    <<"OnAddressInfo", "OnThreadName", "OnThreadStateSlice", "OnUniqueCallStack",
      "OnCallstackEvent", "OnUniqueTracepointInfo", "OnTracepointEvent",
      "OnKeyAndString", "OnTimer">>

PhaseOf(cb) == CHOOSE k \in 1..Len(PhaseOrder) : PhaseOrder[k] = cb

\* C30: after OnCaptureStarted the event callbacks come in a fixed phase
\* order: all OnAddressInfo, then all OnThreadName, then all
\* OnThreadStateSlice, then all OnUniqueCallStack before any
\* OnCallstackEvent, then all OnUniqueTracepointInfo before any
\* OnTracepointEvent, then all OnKeyAndString, and every OnTimer only after
\* all of these.
C30_PhaseOrder ==
    \A i, j \in 1..Len(log) :
        (i < j /\ log[i].cb \in EventCallbacks /\ log[j].cb \in EventCallbacks) =>
            /\ log[1].cb = "OnCaptureStarted"
            /\ PhaseOf(log[i].cb) <= PhaseOf(log[j].cb)

\* a file whose metadata lists a callstack event before a unique call stack
\* has been loaded to the end, timers included
C30_Witness ==
    /\ pc = "done"
    /\ file.meta = <<TagOf("callstack_events"), TagOf("callstacks")>>
    /\ Len(log) = 6
    /\ log[2].cb = "OnUniqueCallStack"
    /\ log[3].cb = "OnCallstackEvent"
    /\ log[4].cb = "OnTimer"
    /\ log[5].cb = "OnTimer"
    /\ log[6].cb = "OnCaptureComplete"

\* the bytes of the stream that are still unread
Unread == Len(stream) - pos

\* the length that the next 4 unread bytes declare, least significant first
DeclaredLength ==
    stream[pos + 1] + 256 * (stream[pos + 2] + 256 * (stream[pos + 3] + 256 * stream[pos + 4]))

\* the length prefix and the whole payload it declares are unread
FrameAvailable == Unread >= 4 /\ Unread - 4 >= DeclaredLength

\* One call of ReadMessage for the metadata or for a timer: it returned true
\* exactly if Load went on to use the message.
C31_Step ==
    (pc \in {"capture_info", "timer_read"} /\ pc' # pc) =>
        LET returned_true == pc' \in {"check1", "timer_check"}
        IN  /\ returned_true <=> FrameAvailable
            /\ returned_true => pos' = pos + 4 + DeclaredLength
            /\ (returned_true /\ pc = "timer_read") =>
                   timer_info' =
                       ParseTimerInfo([k \in 1..DeclaredLength |-> stream[pos + 4 + k]])

\* C31: ReadMessage implements the framing [4-byte little-endian
\* length][payload]: it returns true only if the 4 length bytes and then
\* exactly `length` payload bytes could be read, and then it has consumed
\* exactly 4 + length bytes; it returns false if the length prefix or the
\* full payload is not available.
C31_Framing == [][C31_Step]_vars

\* a timer message with a payload has been read and another message follows
C31_Witness ==
    /\ pc = "timer_check"
    /\ timer_info.fields # <<>>
    /\ pos < Len(stream)
    /\ Len(log) = 1

----------------------------------------------------------------------------
(* Properties of TimerBlock and TimerChain (checked under SpecChain) *)

Windows == {w \in [min : 0..MaxTimestamp, max : 0..MaxTimestamp] : w.min <= w.max}

\* the timer's [start, end] overlaps [min, max]
Overlaps(timer, w) == timer.start <= w.max /\ w.min <= timer.end

SomeTimerOverlaps(b, w) == \E i \in 1..Len(b.data_) : Overlaps(b.data_[i], w)

MinStart(b) ==
    CHOOSE x \in {b.data_[i].start : i \in 1..Len(b.data_)} :
        \A i \in 1..Len(b.data_) : x <= b.data_[i].start

MaxEnd(b) ==
    CHOOSE x \in {b.data_[i].end : i \in 1..Len(b.data_)} :
        \A i \in 1..Len(b.data_) : x >= b.data_[i].end

C10_Step ==
    num_items_' = num_items_ + 1 =>
        IF Len(blocks[current_].data_) = kBlockSize
        THEN /\ Len(blocks') = Len(blocks) + 1
             /\ num_blocks_' = num_blocks_ + 1
             /\ current_' = Len(blocks')
             /\ blocks'[current_].next_ = current_'
             /\ blocks'[current_'].prev_ = current_
             /\ blocks'[current_'].next_ = 0
             /\ blocks'[current_'].data_ = <<last_timer'>>
             /\ \A k \in 1..Len(blocks) : blocks'[k].data_ = blocks[k].data_
        ELSE /\ Len(blocks') = Len(blocks)
             /\ num_blocks_' = num_blocks_
             /\ current_' = current_
             /\ blocks'[current_].data_ = Append(blocks[current_].data_, last_timer')
             /\ \A k \in 1..Len(blocks) :
                   /\ k # current_ => blocks'[k] = blocks[k]
                   /\ blocks'[k].next_ = blocks[k].next_
                   /\ blocks'[k].prev_ = blocks[k].prev_

\* C10: every emplace_back step is C10_Step, and the current block is always
\* the last one: a block that was filled has no successor yet.
C10_AppendOrAllocate ==
    /\ [][C10_Step]_vars
    /\ [](/\ blocks[current_].next_ = 0
          /\ Len(blocks) = num_blocks_
          /\ current_ = num_blocks_)

C10_Witness ==
    /\ last_op = "allocate"
    /\ num_blocks_ = 2
    /\ Len(blocks[1].data_) = kBlockSize
    /\ blocks[2].data_ = <<last_timer>>
    /\ blocks[1].next_ = 2

C12_Shape ==
    /\ last_op # "check_failed"
    /\ blocks[root_].prev_ = 0
    /\ blocks[current_].next_ = 0
    /\ current_ = Len(blocks)
    /\ \A k \in 1..Len(blocks) :
          /\ Len(blocks[k].data_) <= kBlockSize
          /\ k # current_ => Len(blocks[k].data_) = kBlockSize
          /\ blocks[k].next_ # 0 =>
                /\ blocks[k].next_ \in 1..Len(blocks)
                /\ blocks[blocks[k].next_].prev_ = k

\* One step of the chain (C12): the timers of a step go to the block that is
\* current after it, and a block that is not current is left as it is.
C12_Step ==
    /\ \A k \in 1..Len(blocks) :
          k # current_ => (Len(blocks') >= k /\ blocks'[k] = blocks[k])
    /\ \A k \in 1..Len(blocks') :
          (k > Len(blocks) \/ blocks'[k].data_ # blocks[k].data_) => k = current_'

\* C12: root_ has no predecessor; current_ is the last block and the only
\* one that takes timers; every other block holds kBlockSize timers and never
\* changes again; no block holds more than kBlockSize timers and no CHECK
\* fails; the successor of a block names that block as its predecessor.
C12_ChainInvariant == []C12_Shape /\ [][C12_Step]_vars

C12_Witness ==
    /\ num_blocks_ = 2
    /\ current_ = 2
    /\ blocks[1].next_ = 2
    /\ blocks[2].prev_ = 1
    /\ Len(blocks[1].data_) = kBlockSize
    /\ Len(blocks[2].data_) = kBlockSize

RECURSIVE Traverse(_, _)
\* TimerChainIterator from begin() to end(): the blocks met by following
\* next_, at most fuel of them
Traverse(k, fuel) ==
    IF k = 0 \/ fuel = 0 THEN <<>>
    ELSE <<k>> \o Traverse(blocks[k].next_, fuel - 1)

CreationOrder == Traverse(root_, Len(blocks) + 1) = [k \in 1..Len(blocks) |-> k]

MinTimestampsNonDecreasing ==
    \A k \in 1..(Len(blocks) - 1) :
        blocks[k].min_timestamp_ <= blocks[k + 1].min_timestamp_

\* the timers were appended in non-decreasing order of their start
AppendedInStartOrder ==
    \A k1, k2 \in 1..Len(blocks) :
        \A i1 \in 1..Len(blocks[k1].data_) : \A i2 \in 1..Len(blocks[k2].data_) :
            (k1 < k2 \/ (k1 = k2 /\ i1 < i2)) =>
                blocks[k1].data_[i1].start <= blocks[k2].data_[i2].start

\* C13 as claimed: next_ visits the blocks in creation order and their
\* min_timestamp_ values are non-decreasing along it, whatever was appended.
C13_CreationOrderAndMinTimestamps == CreationOrder /\ MinTimestampsNonDecreasing

\* C13 as amended: next_ visits the blocks in creation order; their
\* min_timestamp_ values are non-decreasing along it if the timers were
\* appended in non-decreasing order of start, which the chain does not check.
C13_CreationOrderAndMinTimestampsOfOrderedAppends ==
    /\ CreationOrder
    /\ AppendedInStartOrder => MinTimestampsNonDecreasing

C13_Witness ==
    /\ num_blocks_ = 2
    /\ AppendedInStartOrder
    /\ blocks[1].min_timestamp_ < blocks[2].min_timestamp_
    /\ Traverse(root_, 3) = <<1, 2>>

RECURSIVE SumOfSizes(_)
SumOfSizes(k) == IF k = 0 THEN 0 ELSE Len(blocks[k].data_) + SumOfSizes(k - 1)

\* One step of the chain (C14): every timer stays in its block at its index.
C14_Step ==
    /\ Len(blocks') >= Len(blocks)
    /\ num_items_' >= num_items_
    /\ \A k \in 1..Len(blocks) :
          /\ Len(blocks'[k].data_) >= Len(blocks[k].data_)
          /\ \A i \in 1..Len(blocks[k].data_) : blocks'[k].data_[i] = blocks[k].data_[i]

\* C14: emplace_back leaves every earlier timer in the same block at the same
\* index with the same timestamps, and size() never decreases; size() is the
\* number of timers held.
C14_PureGrowth == [][C14_Step]_vars /\ [](num_items_ = SumOfSizes(Len(blocks)))

C14_Witness ==
    /\ num_items_ = kBlockSize + 2
    /\ last_op = "append"
    /\ blocks[1].data_[1] # blocks[1].data_[2]
    /\ blocks[2].data_[1] # last_timer

\* C15: for the last timer of a block that is followed by a block holding a
\* timer, GetElementAfter is the first timer of that block; for the first
\* timer of a block other than the root, GetElementBefore is the last timer
\* of the block before it; GetElementAfter of the last timer of the chain and
\* GetElementBefore of the first timer of the chain are nullptr.  Inside a
\* block they are the neighbours in data_.  Blocks are counted in creation
\* order.
C15_NeighboursAcrossBlocks ==
    \A k \in 1..Len(blocks) : \A i \in 1..Len(blocks[k].data_) :
        LET e == ElementAt(k, i)
            last == Len(blocks[k].data_)
        IN  /\ i < last => GetElementAfter(blocks, e) = ElementAt(k, i + 1)
            /\ i > 1 => GetElementBefore(blocks, e) = ElementAt(k, i - 1)
            /\ (i = last /\ k < Len(blocks) /\ Len(blocks[k + 1].data_) > 0) =>
                  GetElementAfter(blocks, e) = ElementAt(k + 1, 1)
            /\ (i = 1 /\ k > 1) =>
                  GetElementBefore(blocks, e) = ElementAt(k - 1, Len(blocks[k - 1].data_))
            /\ (i = last /\ k = Len(blocks)) => GetElementAfter(blocks, e) = NoElement
            /\ (i = 1 /\ k = 1) => GetElementBefore(blocks, e) = NoElement

C15_Witness ==
    /\ num_blocks_ = 2
    /\ Len(blocks[2].data_) = 2
    /\ GetElementAfter(blocks, ElementAt(1, kBlockSize)) = ElementAt(2, 1)
    /\ GetElementBefore(blocks, ElementAt(2, 1)) = ElementAt(1, kBlockSize)
    /\ GetElementAfter(blocks, ElementAt(2, 2)) = NoElement
    /\ GetElementBefore(blocks, ElementAt(1, 1)) = NoElement

\* C32: for every non-empty TimerBlock min_timestamp_ is the smallest start
\* and max_timestamp_ the largest end of the timers it holds; an empty block
\* has min_timestamp_ = the largest timestamp (UINT64_MAX) and
\* max_timestamp_ = 0.
C32_MinMaxOverContents ==
    \A k \in 1..Len(blocks) :
        IF blocks[k].data_ = <<>>
        THEN blocks[k].min_timestamp_ = MaxTimestamp /\ blocks[k].max_timestamp_ = 0
        ELSE /\ blocks[k].min_timestamp_ = MinStart(blocks[k])
             /\ blocks[k].max_timestamp_ = MaxEnd(blocks[k])

\* a full block whose smallest start and largest end are not those of its
\* last timer, followed by a second block
C32_Witness ==
    /\ num_blocks_ = 2
    /\ Len(blocks[1].data_) = kBlockSize
    /\ blocks[1].data_[kBlockSize].start > blocks[1].min_timestamp_
    /\ blocks[1].data_[kBlockSize].end < blocks[1].max_timestamp_
    /\ Len(blocks[2].data_) = 1

\* C33: block rejection is conservative: if some timer of a block overlaps
\* the window [a, b], Intersects(a, b) is true for the block, so skipping the
\* blocks that do not intersect never misses a timer of the window.
C33_RejectionConservative ==
    \A k \in 1..Len(blocks) : \A w \in Windows :
        SomeTimerOverlaps(blocks[k], w) => Intersects(blocks[k], w.min, w.max)

\* the timers of the window, found by scanning every block and by scanning
\* only the blocks that intersect, where a block is skipped
C33_Witness ==
    \E w \in Windows :
        /\ num_blocks_ = 2
        /\ ~Intersects(blocks[1], w.min, w.max)
        /\ Intersects(blocks[2], w.min, w.max)
        /\ SomeTimerOverlaps(blocks[2], w)
        /\ blocks[1].data_[1].start > blocks[1].data_[2].start

RECURSIVE Advance(_, _)
\* the block of a TimerChainIterator after n increments, started at block k
Advance(k, n) == IF n = 0 THEN k ELSE Advance(blocks[k].next_, n - 1)

\* the blocks that begin(), ++ meet before end(); the fuel stops a cycle
ReachableFromRoot == Range(Traverse(root_, Len(blocks) + 1))

\* size() and the count of blocks are exact, and an iteration from begin()
\* is at end() after num_blocks_ increments and not before
C34_Counts ==
    /\ num_items_ = SumOfSizes(Len(blocks))
    /\ num_blocks_ = Cardinality(ReachableFromRoot)
    /\ Len(Traverse(root_, Len(blocks) + 1)) = num_blocks_
    /\ \A n \in 0..(num_blocks_ - 1) : Advance(root_, n) # 0
    /\ Advance(root_, num_blocks_) = 0

\* One emplace_back (C34): size() grows by one, and begin() stays where it was.
C34_Step == num_items_' = num_items_ + 1 /\ root_' = root_

\* C34: size() is the number of emplace_back calls and the sum of the block
\* sizes, num_blocks_ the number of blocks reachable from root_, and every
\* iteration from begin() reaches end() after exactly num_blocks_ increments.
C34_CountsExactIterationFinite == []C34_Counts /\ [][C34_Step]_vars

C34_Witness ==
    /\ num_blocks_ = 2
    /\ num_items_ = 2 * kBlockSize
    /\ Advance(root_, 1) = current_
    /\ Advance(root_, 2) = 0

----------------------------------------------------------------------------
(* Properties of the live capture session (checked under SpecCapture) *)

StartCaptureSucceeded(c) == c.op = "StartCapture" /\ c.result = "success"

\* One call (C16): StartCapture for a target process without a name.
C16_Step ==
    (call'.op = "StartCapture" /\ GetName(Capture.GTargetProcess) = <<>>) =>
        /\ call'.result # "success"
        /\ call'.result # ""
        /\ call'.sent = <<>>
        /\ call'.ui = <<>>
        /\ call'.profiler = <<>>
        /\ GSessionID' = GSessionID
        /\ GTimerManager' = GTimerManager
        /\ Capture' = Capture

\* C16: StartCapture with no target process selected returns a failure and
\* changes nothing: the session id, the recording flag and the capture data
\* are as before and nothing is sent.
C16_NoProcessSelectedFails == [][C16_Step]_vars

C16_Witness ==
    /\ call.op = "StartCapture"
    /\ call.result # "success"
    /\ GetName(Capture.GTargetProcess) = <<>>
    /\ GSessionID = 1
    /\ GTimerManager.m_IsRecording
    /\ Capture.GCallstacks # {}

SessionMaps(c) ==
    c.GCallstacks \cup c.GAddressInfos \cup c.GAddressToFunctionName \cup c.GZoneNames

\* One call (C17): a StartCapture that succeeds.
C17_Step ==
    StartCaptureSucceeded(call') =>
        /\ SessionMaps(Capture') = {}
        /\ \A e \in Capture'.GFunctionCountMap : e.value = 0
        /\ Capture'.GNumProfileEvents = 0
        /\ Capture'.GNumLinuxEvents = 0
        /\ Capture'.GNumContextSwitches = 0

\* C17: a successful StartCapture leaves the call stacks, address infos,
\* function names and zone names empty, every function count 0 and the
\* event counters 0; so every entry held was recorded in the current session.
C17_NoStaleData ==
    /\ [][C17_Step]_vars
    /\ [](\A e \in SessionMaps(Capture) : e.value = GSessionID)

C17_Witness ==
    /\ StartCaptureSucceeded(call)
    /\ GSessionID = 2
    /\ Capture.GFunctionCountMap # {}
    /\ SessionMaps(Capture) = {}

\* One step (C18): the session id changes only in a StartCapture that
\* succeeds, by one, and every message of that call carries the new id.
C18_Step ==
    /\ GSessionID' # GSessionID => StartCaptureSucceeded(call')
    /\ StartCaptureSucceeded(call') =>
          /\ GSessionID' = GSessionID + 1
          /\ call'.sent # <<>>
          /\ \A i \in 1..Len(call'.sent) : call'.sent[i].session = GSessionID'

\* C18: each successful StartCapture adds one to Message::GSessionID before
\* it sends a message, and no other call changes it.
C18_SessionIdIncreases == [][C18_Step]_vars

C18_Witness ==
    /\ StartCaptureSucceeded(call)
    /\ GSessionID = 2
    /\ call.sent[1].type = "Msg_NewSession"
    /\ call.sent[1].session = 2
    /\ Len(call.sent) >= 3

\* C19 as claimed: when StopCapture has returned, IsCapturing() is false.
C19_IdleAfterStopCapture == call.op = "StopCapture" => ~IsCapturing

\* C20 as claimed: StopCapture called while nothing is recording sends no
\* message and leaves the session state as it is.
C20_StopCaptureIdempotent ==
    /\ []((call.op = "StopCapture" /\ ~call.recording) => call.sent = <<>>)
    /\ [][(call'.op = "StopCapture" /\ ~IsCapturing) =>
             (Capture' = Capture /\ GSessionID' = GSessionID
                 /\ GTimerManager' = GTimerManager)]_vars

\* C21 as claimed: a StartCapture called while IsCapturing() is true does not
\* add to the session id and does not clear the capture data.
C21_NoStartWhileRecording ==
    [][(call'.op = "StartCapture" /\ IsCapturing) =>
          (GSessionID' = GSessionID /\ SessionMaps(Capture') = SessionMaps(Capture))]_vars

HookMessageTypes == {GetMessageType(OrbitTypes[k]) : k \in 1..Len(OrbitTypes)}

\* the hook messages of the last call, by their place in what it sent
HookMessages == {i \in 1..Len(call.sent) : call.sent[i].type \in HookMessageTypes}

AddressesOfType(t) == {a \in Capture.GSelectedFunctions : GetOrbitType(a) = t}

HookMessagesOfType(t) == {i \in HookMessages : call.sent[i].type = t}

\* C35 as claimed: GetMessageType is injective, so each hook message type is
\* sent at most once per StartCapture and a hook message identifies the
\* OrbitType of all its addresses.
C35_Injective ==
    /\ \A j, k \in 1..Len(OrbitTypes) :
          GetMessageType(OrbitTypes[j]) = GetMessageType(OrbitTypes[k]) => j = k
    /\ StartCaptureSucceeded(call) =>
          \A t \in HookMessageTypes :
              /\ Cardinality(HookMessagesOfType(t)) <= 1
              /\ \A i, j \in HookMessagesOfType(t) :
                    \A a \in call.sent[i].addresses : \A b \in call.sent[j].addresses :
                        GetOrbitType(a) = GetOrbitType(b)

\* C35 as amended: GetMessageType is injective except that NONE and ORBIT_LOG
\* both have Msg_FunctionHook; per StartCapture Msg_FunctionHook is sent at
\* most twice (the plain functions, the ORBIT_LOG functions) and every other
\* hook message type at most once; the addresses of one hook message all
\* have the same OrbitType, and that type has the message's type.
C35_InjectiveExceptLog ==
    /\ \A j, k \in 1..Len(OrbitTypes) :
          GetMessageType(OrbitTypes[j]) = GetMessageType(OrbitTypes[k]) =>
              j = k \/ {OrbitTypes[j], OrbitTypes[k]} = {"NONE", "ORBIT_LOG"}
    /\ StartCaptureSucceeded(call) =>
          /\ \A t \in HookMessageTypes :
                Cardinality(HookMessagesOfType(t))
                    <= (IF t = "Msg_FunctionHook" THEN 2 ELSE 1)
          /\ \A i \in HookMessages :
                \A a, b \in call.sent[i].addresses :
                    /\ GetOrbitType(a) = GetOrbitType(b)
                    /\ GetMessageType(GetOrbitType(a)) = call.sent[i].type

\* a capture of the remote process has sent one Msg_FunctionHook for its
\* plain function and one for its ORBIT_LOG function
C35_Witness ==
    /\ StartCaptureSucceeded(call)
    /\ GetIsRemote(Capture.GTargetProcess)
    /\ Cardinality(HookMessagesOfType("Msg_FunctionHook")) = 2
    /\ \E i, j \in HookMessagesOfType("Msg_FunctionHook") :
          /\ \A a \in call.sent[i].addresses : GetOrbitType(a) = "NONE"
          /\ \A a \in call.sent[j].addresses : GetOrbitType(a) = "ORBIT_LOG"

\* the places of the messages of type t in what the last call sent
SentOfType(t) == {i \in 1..Len(call.sent) : call.sent[i].type = t}

\* C36: in a successful StartCapture for a remote target Msg_NewSession is
\* sent before every other message of the session, the selected-function
\* list (Msg_RemoteSelectedFunctionsMap) before the start command
\* (Msg_StartCapture), and the start command exactly once.
C36_ProtocolOrder ==
    (StartCaptureSucceeded(call) /\ IsRemote(Capture)) =>
        /\ SentOfType("Msg_NewSession") = {1}
        /\ \A i \in 1..Len(call.sent) : call.sent[i].session = GSessionID
        /\ Cardinality(SentOfType("Msg_StartCapture")) = 1
        /\ SentOfType("Msg_RemoteSelectedFunctionsMap") # {}
        /\ \A i \in SentOfType("Msg_RemoteSelectedFunctionsMap") :
              \A j \in SentOfType("Msg_StartCapture") : i < j

\* the second capture of a remote target, with hooks sent after the start
\* command
C36_Witness ==
    /\ StartCaptureSucceeded(call)
    /\ IsRemote(Capture)
    /\ GSessionID = 2
    /\ call.sent[3].type = "Msg_RemoteSelectedFunctionsMap"
    /\ call.sent[3].addresses # {}
    /\ call.sent[4].type = "Msg_StartCapture"
    /\ Len(call.sent) > 4

\* C37: after every successful StartCapture, GSelectedFunctionsMap and
\* GVisibleFunctionsMap contain exactly the addresses of the functions
\* selected for this session; a function that was selected in an earlier
\* capture of the same target process but is no longer selected is not in
\* them.
C37_MapsAreTheSelection ==
    StartCaptureSucceeded(call) =>
        /\ Keys(Capture.GSelectedFunctionsMap) = Capture.GSelectedFunctions
        /\ Keys(Capture.GVisibleFunctionsMap) = Capture.GSelectedFunctions

\* the selection that the last call transmitted to a remote agent, if any
TransmittedSelections ==
    {call.sent[i].addresses :
        i \in {j \in 1..Len(call.sent) : call.sent[j].type = "Msg_RemoteSelectedFunctionsMap"}}

\* C23 as claimed: after a StartCapture that succeeded, GSelectedFunctions is
\* the functions of the target process for which IsSelected() is true.
C23_SelectionIsSelectedFlag ==
    StartCaptureSucceeded(call) =>
        Capture.GSelectedFunctions
            = {a \in GetFunctions(Capture.GTargetProcess) :
                  IsSelected(Capture.GTargetProcess, a)}

\* C23 as amended: after a StartCapture that succeeded, GSelectedFunctions is
\* the functions of the target process for which IsSelected() or
\* IsOrbitFunc() is true, and that is the selection sent to a remote agent.
C23_SelectionIsSelectedOrOrbitFunc ==
    StartCaptureSucceeded(call) =>
        LET selection == {a \in GetFunctions(Capture.GTargetProcess) :
                             \/ IsSelected(Capture.GTargetProcess, a)
                             \/ GetOrbitType(a) # "NONE"}
        IN  /\ Capture.GSelectedFunctions = selection
            /\ \A t \in TransmittedSelections : t = selection
            /\ IsRemote(Capture) => TransmittedSelections # {}

C23_Witness ==
    /\ StartCaptureSucceeded(call)
    /\ Capture.GTargetProcess = 2
    /\ ~IsSelected(2, 2) /\ ~IsSelected(2, 3)
    /\ Capture.GSelectedFunctions = {1, 3}
    /\ TransmittedSelections = {{1, 3}}

\* C24 as claimed: when Update is called while a capture is recording and the
\* connection to the agent is lost, IsCapturing() and GInjected are false
\* after it.
C24_IdleAfterConnectionLoss ==
    (call.op = "Update" /\ call.recording /\ ~call.arg.has_connection) =>
        (~IsCapturing /\ ~Capture.GInjected)

\* C25: a call stack that was added is held once, under its hash, and
\* GetCallstack of the hash returns it, however often it was added; no hash
\* has two entries, and GetCallstack of a hash that is not in the table
\* returns nullptr.
C25_InterningIdempotent ==
    /\ \A e1, e2 \in Capture.GCallstacks : e1.key = e2.key => e1 = e2
    /\ \A k \in 1..MaxKey :
          k \notin {e.key : e \in Capture.GCallstacks} =>
              GetCallstack(Capture, k) = NoCallstack
    /\ call.op = "AddCallstack" =>
          /\ GetCallstack(Capture, call.arg.m_Hash) = call.arg.m_Data
          /\ Cardinality({e \in Capture.GCallstacks : e.data = call.arg.m_Data}) = 1
          /\ \A e \in Capture.GCallstacks :
                e.data = call.arg.m_Data => e.key = call.arg.m_Hash

\* the call stack was in the table when it was added again
C25_Witness ==
    /\ call.op = "AddCallstack"
    /\ call.arg.interned
    /\ Cardinality(Capture.GCallstacks) = 1
    /\ GetCallstack(Capture, call.arg.m_Hash) = call.arg.m_Data

\* C26 as claimed: within a session, once GetCallstack(key) returns a call
\* stack it keeps returning that call stack, whatever is added.
C26_NeverMerged ==
    [][(call'.op = "AddCallstack" /\ GSessionID' = GSessionID) =>
          \A k \in 1..MaxKey :
              GetCallstack(Capture, k) # NoCallstack =>
                  GetCallstack(Capture', k) = GetCallstack(Capture, k)]_vars

----------------------------------------------------------------------------
(* Properties of concurrent AddCallstack / GetCallstack (checked under SpecIntern) *)

InCriticalSection(t) == threads[t].pc \in {"store", "assign", "find", "unlock"}

\* the calls are serialized by GCallstackMutex
Serialized ==
    /\ \A t1, t2 \in Threads :
          (InCriticalSection(t1) /\ InCriticalSection(t2)) => t1 = t2
    /\ \A t \in Threads : InCriticalSection(t) => GCallstackMutex = t

\* the call stack of every AddCallstack that has returned is in the table
NoneLost ==
    \A t \in Producers :
        threads[t].pc = "done" =>
            \E e \in Capture.GCallstacks :
                e.key = Hash(threads[t].arg) /\ e.data = threads[t].arg

\* GetCallstack has returned nullptr or a call stack that was stored
ReadsComplete ==
    \A t \in Threads :
        (threads[t].op = "GetCallstack" /\ threads[t].pc \in {"unlock", "done"}) =>
            \/ threads[t].result = NoCallstack
            \/ threads[t].result \in 1..MaxContent

\* C27 as claimed: concurrent AddCallstack and GetCallstack calls are
\* serialized by GCallstackMutex, no added call stack is lost, and
\* GetCallstack returns nullptr or a completely stored call stack.
C27_ConcurrentInterningSafe == Serialized /\ NoneLost /\ ReadsComplete

----------------------------------------------------------------------------
(* Properties of the modules of the selected process (checked under SpecModules) *)

\* Resolve returns a module of the current set whose [start, end) contains
\* the address, and no module exactly if no range of the set contains it.
ResolvesByContainment ==
    menu.op = "Resolve" =>
        LET containing == {k \in 1..Len(m_Process) :
                              /\ m_Process[k].m_AddressStart <= menu.address
                              /\ menu.address < m_Process[k].m_AddressEnd}
        IN  IF containing = {} THEN menu.result = NoModule
            ELSE \E k \in containing : menu.result = m_Process[k]

\* The start address of a listed module resolves to a module: the CHECK of
\* OnContextMenu holds.
ListedStartsResolve == menu.op = "OnContextMenu" => menu.check

----------------------------------------------------------------------------
(* Properties of the accesses to GCallstacks (checked under SpecInternReset) *)

\* One step (C38): the table changes only in a step of the thread that holds
\* GCallstackMutex, and it is read only by that thread.
C38_Step ==
    /\ Capture'.GCallstacks # Capture.GCallstacks =>
          \E t \in Threads : GCallstackMutex = t /\ threads'[t] # threads[t]
    /\ \A t \in Threads :
          (threads[t].pc = "find" /\ threads'[t].pc # "find") => GCallstackMutex = t

\* C38: GCallstacks is never read or written without holding
\* GCallstackMutex; in particular the reset done by ClearCaptureData (run by
\* StartCapture) cannot interleave with an AddCallstack or GetCallstack
\* executing on another thread.
C38_TableAccessedUnderMutex == [][C38_Step]_vars

----------------------------------------------------------------------------
(* Properties of ProcessList (checked under SpecProcessList) *)

\* the list and the map describe the same processes: a listed process is the
\* map's entry for its id, every map entry is listed, and GetProcessById
\* finds a process exactly if Contains does
C39_SameProcesses ==
    LET l == m_ProcessList
    IN  /\ \A i \in DOMAIN l.m_Processes :
               GetProcessById(l, l.m_Processes[i].m_ID) = l.m_Processes[i]
        /\ \A e \in l.m_ProcessesMap : Contains(l, e.key)
        /\ \A pid \in Pids : GetProcessById(l, pid) # NoProcess <=> Contains(l, pid)

\* a process listed before and after a refresh is the same object
C39_KeepsObject ==
    call'.op \in {"Refresh", "UpdateFromRemote"} =>
        \A pid \in Pids :
            Contains(m_ProcessList, pid) /\ Contains(m_ProcessList', pid) =>
                SameObject(GetProcessById(m_ProcessList, pid),
                           GetProcessById(m_ProcessList', pid))

\* C39 as claimed: after any sequence of Refresh, UpdateFromRemote,
\* UpdateProcess and Clear, m_Processes and m_ProcessesMap describe the same
\* set of processes, so GetProcessById(pid) is non-null if and only if
\* Contains(pid); a process already known keeps its object across a refresh,
\* and a process that disappeared is in neither.
C39_ListAndMapAgree == []C39_SameProcesses /\ [][C39_KeepsObject]_vars

----------------------------------------------------------------------------
(* Properties of ProcessesDataView (checked under SpecProcessesView) *)

\* an OnTimer that arrives during a capture leaves the view as it was
C40_Step ==
    (call'.op = "OnTimer" /\ IsCapturing) =>
        UNCHANGED <<m_ProcessList, m_Indices, m_SelectedIndex, m_ThreadUsage>>

\* C40: while a capture is recording (Capture::IsCapturing() is true),
\* ProcessesDataView::Refresh, and therefore OnTimer, changes nothing: the
\* process list, the row indices, the selected row and the thread usage of
\* the target process are left unchanged.
C40_RefreshFrozenWhileCapturing == [][C40_Step]_vars

\* an OnTimer has returned during a capture, with processes listed, a row
\* selected and a target process whose threads would be sampled
C40_Witness ==
    /\ call.op = "OnTimer"
    /\ call.recording
    /\ IsCapturing
    /\ m_ProcessList.m_Processes # <<>>
    /\ m_SelectedIndex # -1
    /\ Capture.GTargetProcess # 0

============================================================================
